---- MODULE Spec2Model ----
(***************************************************************************)
(* Service-day simulation of the cafe game: customer queue and patience,   *)
(* recipe matching and tips, the portal chaos event and its manager.       *)
(*                                                                         *)
(* Time and every quantity derived from time (patience, rift stability,    *)
(* timers) are Python floats in the source.  They are modelled in fixed    *)
(* point, US units per second (resp. per point of stability).  A value the *)
(* source computes that is not representable is rounded the way the double *)
(* is: 1.0/60.0 is the double 0.01666666666666666574..., which lies BELOW  *)
(* 1/60, so fixed_timestep is truncated, not rounded up.                   *)
(***************************************************************************)
EXTENDS Integers, Sequences, FiniteSets, TLC

US == 10 ^ 6

Sec(n) == n * US

\* self.current_event = None
NoEvent == [none |-> TRUE]
\* an empty queue slot (None in CustomerQueue.customers)
NoCustomer == [empty |-> TRUE]
\* selected_customer_index = None
NoIndex == -1

(***************************************************************************)
(* Bounds of the model.                                                    *)
(***************************************************************************)
\* Largest coarse step, in seconds, handed to ServiceController.update.
MaxDtSec == 5
\* Largest coarse step, in seconds, handed to PortalEvent/ChaosManager.update.
MaxChaosDtSec == 3
\* Coarse step, in seconds, of the days the player takes part in.
MaxPlayDtSec == 15
\* Direct calls the host makes in one run besides start_day and update
\* (spawn_customer, add_customer, remove_customer, start_order, cancel_order,
\* serve_drink).
MaxHostCalls == 2
\* Calls made on a BrewingStation driven on its own (update not counted).
MaxStationCalls == 5
\* The station driven on its own is updated while current_brew_time is
\* below this many seconds.
MaxBrewSec == 3
\* Player actions at the counter of one run (select, three ingredients,
\* serve); update and start_day are not counted.
MaxCounterCalls == 5
\* Player actions at the counter over one session (select, two ingredients,
\* serve) and the last day a session starts.
MaxSessionCalls == 4
MaxDays == 2
\* Times a session is paused.
MaxPauses == 1
\* Step, in seconds, of a day in which customers are served as they come, and
\* the player's calls in it (one select_customer, then serve_drink).
MaxRushDtSec == 10
MaxRushCalls == 5
\* Step, in seconds, of CustomerQueue.update called directly, and the
\* add_customer / remove_customer calls made around it.
MaxQueueDtSec == 4
MaxQueueCalls == 5

VARIABLES
    \* ServiceController
    customer_pool, time_remaining, customers_served, total_tips, spawn_timer,
    cafe_heat, active,
    \* CustomerQueue
    customers,
    \* BrewingStation
    current_recipe, current_brew_time, is_brewing, selected_customer_index,
    \* ChaosManager
    current_event, event_triggered,
    \* UpgradeManager of the ServiceState (screens.py:228)
    modifiers, purchased_upgrades,
    \* UpgradeManager of the UpgradeShopState (screens.py:829)
    shop_modifiers, shop_purchased_upgrades,
    \* App.game_data, StateManager.current_state (as its StateID) and the
    \* fields of the DayResultsState
    game_data, current_state, results,
    \* DayIntroState.day_number, UpgradeShopState.current_day
    day_number, current_day,
    \* StateManager.states (the registered ids), previous_state_id and the
    \* is_active flag of the GameState registered under each id
    states, previous_state_id, state_is_active,
    \* observation of the last call: its name, inputs and return value
    ret,
    \* bookkeeping of the run, not program state
    hist

svcVars == <<customer_pool, time_remaining, customers_served, total_tips,
             spawn_timer, cafe_heat, active>>
stationVars == <<current_recipe, current_brew_time, is_brewing,
                 selected_customer_index>>
chaosVars == <<current_event, event_triggered>>
upgVars == <<modifiers, purchased_upgrades>>
smVars == <<current_state, states, previous_state_id, state_is_active>>
appVars == <<shop_modifiers, shop_purchased_upgrades, game_data, results,
             day_number, current_day, smVars>>
vars == <<svcVars, customers, stationVars, chaosVars, upgVars, appVars, ret,
          hist>>

(***************************************************************************)
(* systems/upgrades.py : the modifiers, in hundredths (1.0 is 100)         *)
(***************************************************************************)
\* UpgradeManager.__init__: self.modifiers
NewModifiers == [brew_speed |-> 100, patience_decay |-> 100, tip_multiplier |-> 100]

\* the modifiers a session can hold: each of the two upgrades bought or not
\* (enchanted_grinder: brew_speed * 1.2, calming_fern: patience_decay * 0.85)
ReachableModifiers ==
    {[NewModifiers EXCEPT !.brew_speed = b, !.patience_decay = d] :
        b \in {100, 120}, d \in {100, 85}}

\* the modifiers of the days modelled here: with and without the fern
DayModifiers == {m \in ReachableModifiers : m.brew_speed = 100}

\* the value "nothing" (None) and an Optional value that is present
Nothing == [none |-> TRUE]
Some(n) == [some |-> n]

\* UpgradeManager._init_upgrades: the catalogue; effect_value in hundredths
UpgradeIds == {"enchanted_grinder", "calming_fern"}
available_upgrades ==
    [enchanted_grinder |-> [cost |-> 15, effect_key |-> "brew_speed",
                            effect_value |-> 120],
     calming_fern      |-> [cost |-> 20, effect_key |-> "patience_decay",
                            effect_value |-> 85]]

\* the keys of UpgradeManager.modifiers
ModifierKeys == {"brew_speed", "patience_decay", "tip_multiplier"}

\* x in a Python list
InList(x, list) == \E i \in 1..Len(list) : list[i] = x

\* UpgradeManager.can_afford
can_afford(upgrade_id, coins) ==
    upgrade_id \in UpgradeIds /\ coins >= available_upgrades[upgrade_id].cost

\* UpgradeManager.is_purchased
is_purchased(purchased, upgrade_id) == InList(upgrade_id, purchased)

PurchaseAllowsRepeat(purchased, upgrade_id, coins) ==
    \/ upgrade_id \notin UpgradeIds
    \/ coins < available_upgrades[upgrade_id].cost

PurchaseRefusedIgnoringCost(purchased, upgrade_id, coins) ==
    \/ InList(upgrade_id, purchased)
    \/ upgrade_id \notin UpgradeIds

\* UpgradeManager.purchase: the two early returns of None
PurchaseRefused(purchased, upgrade_id, coins) ==
    \/ InList(upgrade_id, purchased)
    \/ upgrade_id \notin UpgradeIds
    \/ coins < available_upgrades[upgrade_id].cost

ApplyToEveryKey(mods, upgrade) ==
    [k \in ModifierKeys |-> (mods[k] * upgrade.effect_value) \div 100]

\* UpgradeManager._apply_upgrade: both branches multiply the named modifier
ApplyUpgrade(mods, upgrade) ==
    IF upgrade.effect_key \in ModifierKeys
    THEN [mods EXCEPT ![upgrade.effect_key] =
                         (@ * upgrade.effect_value) \div 100]
    ELSE mods

\* UpgradeManager.purchase: purchased_upgrades, modifiers and the value
\* returned
PurchaseList(purchased, upgrade_id, coins) ==
    IF PurchaseRefused(purchased, upgrade_id, coins) THEN purchased
    ELSE Append(purchased, upgrade_id)
PurchaseModifiers(purchased, mods, upgrade_id, coins) ==
    IF PurchaseRefused(purchased, upgrade_id, coins) THEN mods
    ELSE ApplyUpgrade(mods, available_upgrades[upgrade_id])
PurchaseResult(purchased, upgrade_id, coins) ==
    IF PurchaseRefused(purchased, upgrade_id, coins) THEN Nothing
    ELSE Some(coins - available_upgrades[upgrade_id].cost)

\* App.__init__: game_data (modifiers is the empty dict)
NewGameData == [coins |-> 10, day |-> 1, modifiers |-> [empty |-> TRUE]]

\* DayResultsState.__init__
NewResults == [day |-> 1, customers_served |-> 0, tips_earned |-> 0,
               time_bonus |-> 0, total_earnings |-> 0]

(***************************************************************************)
(* core/state.py                                                           *)
(***************************************************************************)
\* StateID
StateIDs == {"main_menu", "day_intro", "service", "chaos_event", "day_results",
             "upgrade_shop", "dialogue", "pause"}
\* current_state / previous_state_id = None
NoState == "none"

ExitKeepsFlag(flags, sid) == flags

\* GameState.exit: is_active = False (no state is left when current is None)
Exit(flags, sid) == IF sid = NoState THEN flags ELSE [flags EXCEPT ![sid] = FALSE]

\* GameState.enter: is_active = True
Enter(flags, sid) == [flags EXCEPT ![sid] = TRUE]

\* previous_state_id after change_state left the state current
PreviousAfter(current, previous) == IF current = NoState THEN previous ELSE current

\* StateManager.change_state to a registered id: the manager's fields after
\* the exit of the current state and the enter of the new one
ChangeState(state_id) ==
    /\ state_id \in states
    /\ state_is_active' = Enter(Exit(state_is_active, current_state), state_id)
    /\ previous_state_id' = PreviousAfter(current_state, previous_state_id)
    /\ current_state' = state_id
    /\ UNCHANGED states

(***************************************************************************)
(* core/app.py                                                             *)
(***************************************************************************)
\* self.fixed_timestep = 1.0 / 60.0
fixed_timestep == US \div 60

(***************************************************************************)
(* systems/chaos.py : PortalEvent                                          *)
(***************************************************************************)
drain_rate == 5
max_pastries_lost == 10
InitialStability == Sec(100)
PastryPeriod == Sec(2)
BanishingSteps == <<"beans", "moonlight", "sigil">>

\* PortalEvent.__init__ (with ChaosEvent.__init__)
NewPortalEvent ==
    [active |-> FALSE, resolved |-> FALSE, timer |-> 0,
     rift_stability |-> InitialStability, pastries_lost |-> 0]

\* PortalEvent.start
PortalStart(e) ==
    [e EXCEPT !.active = TRUE, !.resolved = FALSE,
              !.rift_stability = InitialStability, !.pastries_lost = 0]

Max(a, b) == IF a >= b THEN a ELSE b
Min(a, b) == IF a <= b THEN a ELSE b

DrainNoClamp(stability, dt) == stability - drain_rate * dt

\* self.rift_stability = max(0, self.rift_stability - self.drain_rate * dt)
Drain(stability, dt) == Max(0, stability - drain_rate * dt)

\* if self.rift_stability <= 0 or self.pastries_lost >= self.max_pastries_lost
PortalFailCheck(e) ==
    e.rift_stability <= 0 \/ e.pastries_lost >= max_pastries_lost

\* PortalEvent.update: the event after the call
PortalUpdate(e, dt) ==
    IF ~e.active \/ e.resolved THEN e
    ELSE LET drained == Drain(e.rift_stability, dt)
             t1 == e.timer + dt
             fire == t1 >= PastryPeriod
             e1 == [e EXCEPT !.rift_stability = drained,
                             !.timer = IF fire THEN 0 ELSE t1,
                             !.pastries_lost = IF fire THEN @ + 1 ELSE @]
         IN  IF PortalFailCheck(e1) THEN [e1 EXCEPT !.active = FALSE] ELSE e1

\* PortalEvent.update: the payload returned
PortalUpdateResult(e, dt) ==
    IF ~e.active \/ e.resolved THEN [event |-> "empty"]
    ELSE LET e1 == PortalUpdate(e, dt)
         IN  IF ~e1.active
             THEN [event |-> "portal_failed", pastries_lost |-> e1.pastries_lost]
             ELSE [event |-> "status", rift_stability |-> e1.rift_stability,
                   pastries_lost |-> e1.pastries_lost]

\* a payload: a Python list, or some value that is not a list
List(items) == [is_list |-> TRUE, items |-> items]
NotAList == [is_list |-> FALSE, items |-> <<>>]

\* PortalEvent.can_resolve
can_resolve(action, data) ==
    IF action # "serve_drink" \/ ~data.is_list THEN FALSE
    ELSE data.items = BanishingSteps

BonusWrong(stability) == stability \div Sec(1)

\* bonus = int(self.rift_stability / 10)
Bonus(stability) == stability \div Sec(10)

\* PortalEvent.resolve: the event after the call
PortalResolve(e) == [e EXCEPT !.resolved = TRUE, !.active = FALSE]

\* PortalEvent.resolve: the payload returned
PortalResolveResult(e) ==
    [event |-> "portal_closed", bonus |-> Bonus(e.rift_stability)]

(***************************************************************************)
(* Inputs of the chaos operations.                                         *)
(***************************************************************************)
\* dt handed to PortalEvent.update / ChaosManager.update: 0 and whole seconds
\* up to MaxChaosDtSec
ChaosDts == {0} \cup {Sec(s) : s \in 1..MaxChaosDtSec}
ResolveActions == {"serve_drink", "ring_bell"}
ResolvePayloads ==
    {List(BanishingSteps), List(<<"beans", "sigil", "moonlight">>),
     List(<<"beans", "milk", "stardust">>), List(<<>>), NotAList}
\* time_remaining values handed to check_trigger
TriggerTimes == {Sec(90), Sec(46), Sec(45), Sec(44), Sec(10), 0}

Unchanged_service ==
    UNCHANGED <<svcVars, customers, stationVars, upgVars, appVars>>

H0 == [ticks |-> 0, elapsed |-> 0, touched |-> FALSE, triggers |-> 0,
       low_calls |-> 0, trigger_t |-> -1,
       calls |-> 0, spawned |-> 0, left |-> 0, day_ends |-> 0,
       acted |-> FALSE, inside |-> 0, budget |-> MaxHostCalls, pauses |-> 0,
       bound_left |-> FALSE]

(***************************************************************************)
(* PortalEvent driven directly (current_event holds the event under test). *)
(***************************************************************************)
PE_start ==
    /\ current_event # NoEvent
    /\ current_event' = PortalStart(current_event)
    /\ ret' = [op |-> "portal_start"]
    /\ hist' = [hist EXCEPT !.ticks = 0, !.elapsed = 0, !.touched = FALSE]
    /\ UNCHANGED event_triggered
    /\ Unchanged_service

PE_update(dt) ==
    /\ current_event # NoEvent
    /\ current_event' = PortalUpdate(current_event, dt)
    /\ ret' = [op |-> "portal_update", dt |-> dt, before |-> current_event,
               value |-> PortalUpdateResult(current_event, dt)]
    /\ UNCHANGED <<event_triggered, hist>>
    /\ Unchanged_service

PE_can_resolve(action, data) ==
    /\ current_event # NoEvent
    /\ ret' = [op |-> "portal_can_resolve", action |-> action, data |-> data,
               value |-> can_resolve(action, data)]
    /\ UNCHANGED <<chaosVars, hist>>
    /\ Unchanged_service

PE_resolve ==
    /\ current_event # NoEvent
    /\ current_event' = PortalResolve(current_event)
    /\ ret' = [op |-> "portal_resolve", before |-> current_event,
               value |-> PortalResolveResult(current_event)]
    /\ hist' = [hist EXCEPT !.touched = TRUE]
    /\ UNCHANGED event_triggered
    /\ Unchanged_service

(***************************************************************************)
(* systems/chaos.py : ChaosManager                                         *)
(***************************************************************************)
trigger_time == Sec(45)

\* ChaosManager.reset
CM_reset ==
    /\ current_event' = NoEvent
    /\ event_triggered' = FALSE
    /\ ret' = [op |-> "chaos_reset"]
    /\ hist' = [hist EXCEPT !.triggers = 0, !.ticks = 0, !.elapsed = 0,
                            !.touched = FALSE, !.low_calls = 0,
                            !.trigger_t = -1]
    /\ Unchanged_service

ShouldTriggerAgain(triggered, t) == t <= trigger_time

\* if not self.event_triggered and time_remaining <= self.trigger_time
ShouldTrigger(triggered, t) == ~triggered /\ t <= trigger_time

\* ChaosManager.check_trigger.  hist.low_calls counts (up to 2) the calls of
\* the day made with time_remaining <= 45 s, hist.triggers the calls that
\* returned True
CM_check_trigger(t) ==
    /\ IF ShouldTrigger(event_triggered, t)
       THEN /\ event_triggered' = TRUE
            /\ current_event' = PortalStart(NewPortalEvent)
       ELSE UNCHANGED chaosVars
    /\ hist' = [hist EXCEPT
                  !.triggers = IF ShouldTrigger(event_triggered, t)
                               THEN Min(@ + 1, 2) ELSE @,
                  !.trigger_t = IF ShouldTrigger(event_triggered, t) THEN t ELSE @,
                  !.low_calls = IF t <= Sec(45) THEN Min(@ + 1, 2) ELSE @]
    /\ ret' = [op |-> "check_trigger", t |-> t, before |-> current_event,
               value |-> ShouldTrigger(event_triggered, t)]
    /\ Unchanged_service

\* if self.current_event and self.current_event.active
ManagerForwards(e) == e # NoEvent /\ e.active

\* ChaosManager.update
CM_update(dt) ==
    /\ IF ManagerForwards(current_event)
       THEN /\ current_event' = PortalUpdate(current_event, dt)
            /\ ret' = [op |-> "chaos_update", dt |-> dt, before |-> current_event,
                       value |-> PortalUpdateResult(current_event, dt)]
       ELSE /\ UNCHANGED current_event
            /\ ret' = [op |-> "chaos_update", dt |-> dt, before |-> current_event,
                       value |-> [event |-> "empty"]]
    /\ UNCHANGED <<event_triggered, hist>>
    /\ Unchanged_service

ResolveRefusedOnlyWithoutEvent(e) == e = NoEvent

\* if not self.current_event or not self.current_event.active: return None
ResolveRefused(e) == e = NoEvent \/ ~e.active

\* ChaosManager.try_resolve
CM_try_resolve(action, data) ==
    /\ IF ~ResolveRefused(current_event) /\ can_resolve(action, data)
       THEN /\ current_event' = PortalResolve(current_event)
            /\ ret' = [op |-> "try_resolve", action |-> action, data |-> data,
                       before |-> current_event,
                       value |-> PortalResolveResult(current_event)]
       ELSE /\ UNCHANGED current_event
            /\ ret' = [op |-> "try_resolve", action |-> action, data |-> data,
                       before |-> current_event, value |-> [event |-> "none"]]
    /\ hist' = [hist EXCEPT !.touched = TRUE]
    /\ UNCHANGED event_triggered
    /\ Unchanged_service

\* ChaosManager.is_active
CM_is_active ==
    /\ ret' = [op |-> "is_active",
               value |-> (current_event # NoEvent /\ current_event.active)]
    /\ UNCHANGED <<chaosVars, hist>>
    /\ Unchanged_service

(***************************************************************************)
(* Specifications of the chaos subsystem.  The service variables are       *)
(* those of a freshly constructed ServiceController and do not move.       *)
(***************************************************************************)
\* App.__init__ (game_data), main() (the initial state), the shop's
\* UpgradeManager and the DayResultsState as constructed
IdleApp ==
    /\ shop_modifiers = NewModifiers
    /\ shop_purchased_upgrades = <<>>
    /\ game_data = NewGameData
    /\ current_state = "main_menu"
    /\ states = StateIDs
    /\ previous_state_id = NoState
    /\ state_is_active = [sid \in StateIDs |-> sid = "main_menu"]
    /\ results = NewResults
    /\ day_number = 1
    /\ current_day = 1

IdleService ==
    /\ customer_pool = <<>>
    /\ time_remaining = Sec(90)
    /\ customers_served = 0
    /\ total_tips = 0
    /\ spawn_timer = 0
    /\ cafe_heat = 0
    /\ active = FALSE
    /\ customers = [i \in 0..4 |-> NoCustomer]
    /\ current_recipe = <<>>
    /\ current_brew_time = 0
    /\ is_brewing = FALSE
    /\ selected_customer_index = NoIndex
    /\ modifiers = NewModifiers
    /\ purchased_upgrades = <<>>
    /\ IdleApp

\* a PortalEvent as constructed, not yet started
InitPortal ==
    /\ IdleService
    /\ current_event = NewPortalEvent
    /\ event_triggered = FALSE
    /\ ret = [op |-> "init"]
    /\ hist = H0

NextPortal ==
    \/ PE_start
    \/ \E dt \in ChaosDts : PE_update(dt)
    \/ \E a \in ResolveActions, d \in ResolvePayloads : PE_can_resolve(a, d)
    \/ PE_resolve

SpecPortal == InitPortal /\ [][NextPortal]_vars

\* a started PortalEvent updated in fixed ticks only (App.run's loop)
InitPortalTicks ==
    /\ IdleService
    /\ current_event = PortalStart(NewPortalEvent)
    /\ event_triggered = TRUE
    /\ ret = [op |-> "portal_start"]
    /\ hist = H0

\* one pass of "while self.accumulator >= self.fixed_timestep" (app.py:72-74);
\* hist counts the ticks applied to the live event and the time they add up to
FixedTick ==
    /\ current_event' = PortalUpdate(current_event, fixed_timestep)
    /\ ret' = [op |-> "portal_update", dt |-> fixed_timestep,
               before |-> current_event,
               value |-> PortalUpdateResult(current_event, fixed_timestep)]
    /\ hist' = IF current_event.active /\ ~current_event.resolved
               THEN [hist EXCEPT !.ticks = @ + 1, !.elapsed = @ + fixed_timestep]
               ELSE hist
    /\ UNCHANGED event_triggered
    /\ Unchanged_service

NextPortalTicks == FixedTick

SpecPortalTicks == InitPortalTicks /\ [][NextPortalTicks]_vars

\* ChaosManager.__init__, then its public operations in any order
InitChaos ==
    /\ IdleService
    /\ current_event = NoEvent
    /\ event_triggered = FALSE
    /\ ret = [op |-> "init"]
    /\ hist = H0

NextChaos ==
    \/ CM_reset
    \/ \E t \in TriggerTimes : CM_check_trigger(t)
    \/ \E dt \in ChaosDts : CM_update(dt)
    \/ \E a \in ResolveActions, d \in ResolvePayloads : CM_try_resolve(a, d)
    \/ CM_is_active

SpecChaos == InitChaos /\ [][NextChaos]_vars

(***************************************************************************)
(* systems/service.py : data                                               *)
(***************************************************************************)
\* RecipeBook.recipes as loaded from data/recipes.json: id -> steps.  The
\* three recipes are the ones the recipe-book panel lists.
RecipeIds == {"milky_way_mocha", "flaming_meteor_espresso", "banishing_espresso"}
Recipes ==
    [id \in RecipeIds |->
        CASE id = "milky_way_mocha" -> <<"beans", "milk", "stardust">>
          [] id = "flaming_meteor_espresso" -> <<"beans", "meteor_shot">>
          [] id = "banishing_espresso" -> <<"beans", "moonlight", "sigil">>]

IsBanishingNever(id) == FALSE

\* r.id.startswith('banishing')
IsBanishing(id) == id \in {"banishing_espresso"}

\* RecipeBook.get_random_recipe: the recipes random.choice draws from
RegularRecipeIds == {id \in RecipeIds : ~IsBanishing(id)}

\* RecipeBook.find
FindRecipe(id) == IF id \in RecipeIds THEN id ELSE "missing"

MatchesAsMultiset(id, steps) ==
    /\ Len(steps) = Len(Recipes[id])
    /\ \A x \in {steps[i] : i \in 1..Len(steps)} \cup
                {Recipes[id][i] : i \in 1..Len(Recipes[id])} :
          Cardinality({i \in 1..Len(steps) : steps[i] = x}) =
          Cardinality({i \in 1..Len(Recipes[id]) : Recipes[id][i] = x})

\* Recipe.matches: return steps == self.steps
Matches(id, steps) == steps = Recipes[id]

\* ServiceController.customer_pool as loaded from data/customers.json:
\* templates {name, species, quirk, patience, tip}
LoadedPool ==
    { [name |-> "Wisp", species |-> "ghost", quirk |-> "invisible",
       patience |-> 12, tip |-> <<2, 5>>],
      [name |-> "Cinder", species |-> "fire_elemental", quirk |-> "none",
       patience |-> 40, tip |-> <<3, 8>>] }

\* a customers.json whose table also holds a template with tip range [0, 3]
CounterPool ==
    { [name |-> "Cinder", species |-> "fire_elemental", quirk |-> "none",
       patience |-> 40, tip |-> <<3, 8>>],
      [name |-> "Moth", species |-> "moth", quirk |-> "none",
       patience |-> 40, tip |-> <<0, 3>>] }

\* the pool after load_customers failed (the except branch leaves [])
EmptyPool == {}

\* Customer(...) as spawn_customer builds it, is_visible adjusted for ghosts
NewCustomer(template, recipe_id) ==
    [name |-> template.name, species |-> template.species,
     quirk |-> template.quirk,
     patience |-> Sec(template.patience),
     max_patience |-> Sec(template.patience),
     tip_range |-> template.tip,
     desired_recipe |-> recipe_id,
     is_visible |-> (template.quirk # "invisible"),
     reveal_timer |-> 0]

(***************************************************************************)
(* systems/service.py : Customer                                           *)
(***************************************************************************)
\* modifiers: patience_decay in hundredths (1.0 is 100, the fern's 0.85 is 85)
Scaled(dt, hundredths) == (dt * hundredths) \div 100

\* self.patience -= dt * patience_modifier
AgedPatience(patience, dt, decay) == patience - Scaled(dt, decay)

\* Customer.update
CustomerUpdate(c, dt, decay) ==
    LET c1 == [c EXCEPT !.patience = AgedPatience(c.patience, dt, decay)]
    IN  IF c1.quirk = "invisible" /\ c1.reveal_timer > 0
        THEN LET r == c1.reveal_timer - dt
             IN  [c1 EXCEPT !.reveal_timer = r,
                            !.is_visible = IF r <= 0 THEN FALSE ELSE @]
        ELSE c1

TipWithoutBase(c, correct, patience, max_patience) ==
    IF ~correct THEN 0
    ELSE ((c.tip_range[2] - c.tip_range[1]) * patience) \div max_patience

\* Customer.calculate_tip; the ratio patience / max_patience is passed as its
\* numerator and denominator, int() truncates a value that is never negative
calculate_tip(c, correct, patience, max_patience) ==
    IF ~correct THEN 0
    ELSE c.tip_range[1] +
         ((c.tip_range[2] - c.tip_range[1]) * patience) \div max_patience

(***************************************************************************)
(* systems/service.py : CustomerQueue                                      *)
(***************************************************************************)
max_size == 5
Slots == 0..(max_size - 1)

EmptyQueue == [i \in Slots |-> NoCustomer]
Occupied(cs) == {i \in Slots : cs[i] # NoCustomer}
Free(cs) == {i \in Slots : cs[i] = NoCustomer}
FirstFree(cs) == CHOOSE i \in Free(cs) : \A j \in Free(cs) : i <= j

AddOverwritingLast(cs, c) ==
    IF Free(cs) = {} THEN [cs EXCEPT ![max_size - 1] = c]
    ELSE [cs EXCEPT ![FirstFree(cs)] = c]

\* CustomerQueue.add_customer: the slots after the call
AddCustomer(cs, c) ==
    IF Free(cs) = {} THEN cs ELSE [cs EXCEPT ![FirstFree(cs)] = c]

AddCustomerOkAlways(cs) == TRUE

\* CustomerQueue.add_customer: the value returned
AddCustomerOk(cs) == Free(cs) # {}

RemoveCustomerShifting(cs, index) ==
    IF 0 <= index /\ index < max_size
    THEN [i \in Slots |-> IF i < index THEN cs[i]
                          ELSE IF i < max_size - 1 THEN cs[i + 1]
                          ELSE NoCustomer]
    ELSE cs

\* CustomerQueue.remove_customer: the slots after the call
RemoveCustomer(cs, index) ==
    IF 0 <= index /\ index < max_size THEN [cs EXCEPT ![index] = NoCustomer]
    ELSE cs

\* CustomerQueue.remove_customer: the value returned
RemovedCustomer(cs, index) ==
    IF 0 <= index /\ index < max_size THEN cs[index] ELSE NoCustomer

LeavesStrict(c) == c.patience < 0

\* if self.customers[i].patience <= 0
Leaves(c) == c.patience <= 0

\* CustomerQueue.update: every occupied slot aged
AgedQueue(cs, dt, decay) ==
    [i \in Slots |-> IF cs[i] # NoCustomer
                     THEN CustomerUpdate(cs[i], dt, decay) ELSE NoCustomer]

\* CustomerQueue.update: the slots after the call
QueueUpdate(cs, dt, decay) ==
    LET aged == AgedQueue(cs, dt, decay)
    IN  [i \in Slots |-> IF aged[i] # NoCustomer /\ Leaves(aged[i])
                         THEN NoCustomer ELSE aged[i]]

RECURSIVE LeftFrom(_, _)
\* CustomerQueue.update: left_customers, appended in slot order from slot i on
LeftFrom(aged, i) ==
    IF i >= max_size THEN <<>>
    ELSE IF aged[i] # NoCustomer /\ Leaves(aged[i])
         THEN <<aged[i]>> \o LeftFrom(aged, i + 1)
         ELSE LeftFrom(aged, i + 1)

QueueLeftPastFirst(cs, dt, decay) == LeftFrom(AgedQueue(cs, dt, decay), 1)

\* CustomerQueue.update: the list returned
QueueLeft(cs, dt, decay) == LeftFrom(AgedQueue(cs, dt, decay), 0)

(***************************************************************************)
(* systems/service.py : BrewingStation                                     *)
(***************************************************************************)
brew_time_per_step == (12 * US) \div 10

\* BrewingStation.update: current_brew_time after the call
BrewTimeAfter(brewing, recipe, brew_time, dt, brew_speed) ==
    IF brewing /\ recipe # <<>> THEN brew_time + Scaled(dt, brew_speed)
    ELSE brew_time

StartOrderKeepingSequence(index) ==
    /\ hist.calls < hist.budget
    /\ selected_customer_index' = index
    /\ is_brewing' = TRUE
    /\ ret' = [op |-> "start_order", index |-> index]
    /\ hist' = [hist EXCEPT !.calls = @ + 1, !.acted = TRUE]
    /\ UNCHANGED <<svcVars, customers, current_recipe, current_brew_time,
                   chaosVars, upgVars, appVars>>

\* BrewingStation.start_order
ST_start_order(index) ==
    /\ hist.calls < hist.budget
    /\ selected_customer_index' = index
    /\ current_recipe' = <<>>
    /\ is_brewing' = TRUE
    /\ current_brew_time' = 0
    /\ ret' = [op |-> "start_order", index |-> index]
    /\ hist' = [hist EXCEPT !.calls = @ + 1, !.acted = TRUE,
                            !.bound_left = FALSE]
    /\ UNCHANGED <<svcVars, customers, chaosVars, upgVars, appVars>>

\* ServiceState.select_customer: start_order only on an occupied slot
SS_select_customer(index) ==
    IF customers[index] # NoCustomer
    THEN ST_start_order(index)
    ELSE /\ hist.calls < hist.budget
         /\ ret' = [op |-> "select_customer"]
         /\ hist' = [hist EXCEPT !.calls = @ + 1, !.acted = TRUE]
         /\ UNCHANGED <<svcVars, customers, stationVars, chaosVars, upgVars,
                       appVars>>

\* BrewingStation.cancel_order
ST_cancel_order ==
    /\ hist.calls < hist.budget
    /\ current_recipe' = <<>>
    /\ is_brewing' = FALSE
    /\ selected_customer_index' = NoIndex
    /\ ret' = [op |-> "cancel_order"]
    /\ hist' = [hist EXCEPT !.calls = @ + 1, !.acted = TRUE]
    /\ UNCHANGED <<svcVars, customers, current_brew_time, chaosVars, upgVars,
                   appVars>>

\* BrewingStation.__init__: self.available_ingredients
available_ingredients ==
    {"beans", "milk", "stardust", "meteor_shot", "moonlight", "sigil"}

\* the length cap of add_ingredient
MaxRecipeLen == 3

AddIngredientOkUpToCap(recipe, ingredient) ==
    ingredient \in available_ingredients /\ Len(recipe) <= MaxRecipeLen

\* if ingredient in self.available_ingredients and len(self.current_recipe) < 3
AddIngredientOk(recipe, ingredient) ==
    ingredient \in available_ingredients /\ Len(recipe) < MaxRecipeLen

\* BrewingStation.add_ingredient
ST_add_ingredient(ingredient) ==
    /\ hist.calls < hist.budget
    /\ IF AddIngredientOk(current_recipe, ingredient)
       THEN /\ current_recipe' = Append(current_recipe, ingredient)
            /\ current_brew_time' = 0
       ELSE UNCHANGED <<current_recipe, current_brew_time>>
    /\ ret' = [op |-> "add_ingredient", ingredient |-> ingredient,
               value |-> AddIngredientOk(current_recipe, ingredient)]
    /\ hist' = [hist EXCEPT !.calls = @ + 1, !.acted = TRUE]
    /\ UNCHANGED <<svcVars, customers, is_brewing, selected_customer_index,
                   chaosVars, upgVars, appVars>>

\* BrewingStation.update: the value returned
BrewStepDone(brewing, recipe, brew_time, dt, brew_speed) ==
    /\ brewing /\ recipe # <<>>
    /\ brew_time + Scaled(dt, brew_speed) >= brew_time_per_step

\* BrewingStation.update called directly with the manager's modifiers
ST_update(dt) ==
    /\ current_brew_time < Sec(MaxBrewSec)
    /\ current_brew_time' =
          BrewTimeAfter(is_brewing, current_recipe, current_brew_time, dt,
                        modifiers.brew_speed)
    /\ ret' = [op |-> "station_update", dt |-> dt,
               value |-> BrewStepDone(is_brewing, current_recipe,
                                      current_brew_time, dt,
                                      modifiers.brew_speed)]
    /\ UNCHANGED <<svcVars, customers, current_recipe, is_brewing,
                   selected_customer_index, chaosVars, upgVars, appVars, hist>>

\* BrewingStation.complete_order
ST_complete_order ==
    /\ hist.calls < hist.budget
    /\ current_recipe' = <<>>
    /\ is_brewing' = FALSE
    /\ selected_customer_index' = NoIndex
    /\ ret' = [op |-> "complete_order", value |-> current_recipe]
    /\ hist' = [hist EXCEPT !.calls = @ + 1, !.acted = TRUE]
    /\ UNCHANGED <<svcVars, customers, current_brew_time, chaosVars, upgVars,
                   appVars>>

\* what the station is handed when driven on its own: two slots, two known
\* ingredients and an unknown one, steps of 0.6 s and 1.2 s
StationIndices == {0, 3}
StationIngredients == {"beans", "sigil", "cinnamon"}
StationDts == {(6 * US) \div 10, (12 * US) \div 10}

\* BrewingStation.__init__, with the modifiers of a manager that has or has
\* not bought the grinder
InitStation ==
    /\ customer_pool = EmptyPool
    /\ time_remaining = Sec(90)
    /\ customers_served = 0
    /\ total_tips = 0
    /\ spawn_timer = 0
    /\ cafe_heat = 0
    /\ active = FALSE
    /\ customers = [i \in 0..4 |-> NoCustomer]
    /\ current_recipe = <<>>
    /\ current_brew_time = 0
    /\ is_brewing = FALSE
    /\ selected_customer_index = NoIndex
    /\ modifiers \in {m \in ReachableModifiers : m.patience_decay = 100}
    /\ purchased_upgrades = IF modifiers.brew_speed = 100 THEN <<>>
                            ELSE <<"enchanted_grinder">>
    /\ IdleApp
    /\ current_event = NoEvent
    /\ event_triggered = FALSE
    /\ ret = [op |-> "init"]
    /\ hist = [H0 EXCEPT !.budget = MaxStationCalls]

NextStation ==
    \/ \E i \in StationIndices : ST_start_order(i)
    \/ \E g \in StationIngredients : ST_add_ingredient(g)
    \/ \E dt \in StationDts : ST_update(dt)
    \/ ST_complete_order
    \/ ST_cancel_order

SpecStation == InitStation /\ [][NextStation]_vars

(***************************************************************************)
(* systems/service.py : ServiceController                                  *)
(***************************************************************************)
day_time == Sec(90)
spawn_interval == Sec(12)
FirstSpawnDelay == Sec(2)
ServedPlusActiveCap == 8
\* random.uniform(-2, 2): both ends and the middle
Jitters == {Sec(0 - 2), 0, Sec(2)}
\* The random draws of a spawn are inputs of the operation that spawns: the
\* template comes from customer_pool, the recipe from a subset of
\* RegularRecipeIds and the jitter from a subset of Jitters.
AllDraws == [recipes |-> RegularRecipeIds, jitters |-> Jitters]

\* dt handed to update: 0 or the coarse step
ServiceDts == {0, Sec(MaxDtSec)}
PlayDts == {0, Sec(MaxPlayDtSec)}
ServeSeqs ==
    {<<"beans", "milk", "stardust">>, <<"milk", "beans", "stardust">>,
     <<"beans", "meteor_shot">>}

Unchanged_chaos == UNCHANGED <<chaosVars, upgVars, appVars>>
Bool2Nat(b) == IF b THEN 1 ELSE 0

KeepQueue(cs) == cs

\* self.customer_queue.customers = [None] * self.customer_queue.max_size
ClearQueue(cs) == EmptyQueue

SpawnIgnoringActive(pool, is_active) == pool # {}

\* spawn_customer goes on unless "not self.customer_pool or not self.active"
SpawnPossible(pool, is_active) == pool # {} /\ is_active

\* the station is bound to a slot that holds a customer
BoundOccupied ==
    /\ selected_customer_index # NoIndex
    /\ customers[selected_customer_index] # NoCustomer

\* ServiceController.start_day, with the spawn_customer call that ends it
StartDay(draws) ==
    /\ time_remaining' = day_time
    /\ customers_served' = 0
    /\ total_tips' = 0
    /\ spawn_timer' = FirstSpawnDelay
    /\ cafe_heat' = 0
    /\ active' = TRUE
    /\ IF SpawnPossible(customer_pool, TRUE)
       THEN \E template \in customer_pool, rid \in draws.recipes :
              customers' = AddCustomer(ClearQueue(customers),
                                       NewCustomer(template, rid))
       ELSE customers' = ClearQueue(customers)
    /\ ret' = [op |-> "start_day"]
    /\ hist' = [hist EXCEPT !.elapsed = 0, !.left = 0,
                            !.day_ends = 0, !.acted = FALSE,
                            !.spawned = Bool2Nat(customer_pool # {}),
                            !.inside = Bool2Nat(customer_pool # {}),
                            !.bound_left = @ \/ BoundOccupied]
    /\ UNCHANGED <<customer_pool, stationVars>>

\* ServiceController.start_day called on its own
SC_start_day(draws) == StartDay(draws) /\ Unchanged_chaos

\* ServiceController.spawn_customer called by the host
SC_spawn_customer(draws) ==
    /\ hist.calls < hist.budget
    /\ IF SpawnPossible(customer_pool, active)
       THEN \E template \in customer_pool, rid \in draws.recipes :
              customers' = AddCustomer(customers, NewCustomer(template, rid))
       ELSE UNCHANGED customers
    /\ LET ok == SpawnPossible(customer_pool, active) /\ AddCustomerOk(customers)
       IN  /\ ret' = [op |-> "spawn_customer", value |-> ok]
           /\ hist' = [hist EXCEPT !.calls = @ + 1, !.acted = TRUE,
                                   !.spawned = @ + Bool2Nat(ok),
                                   !.inside = @ + Bool2Nat(ok)]
    /\ UNCHANGED <<svcVars, stationVars>>
    /\ Unchanged_chaos

\* CustomerQueue.add_customer called directly
Q_add_customer(c) ==
    /\ hist.calls < hist.budget
    /\ customers' = AddCustomer(customers, c)
    /\ ret' = [op |-> "add_customer", value |-> AddCustomerOk(customers)]
    /\ hist' = [hist EXCEPT !.calls = @ + 1, !.acted = TRUE,
                            !.spawned = @ + Bool2Nat(AddCustomerOk(customers)),
                            !.inside = @ + Bool2Nat(AddCustomerOk(customers))]
    /\ UNCHANGED <<svcVars, stationVars>>
    /\ Unchanged_chaos

\* CustomerQueue.remove_customer called directly
Q_remove_customer(index) ==
    /\ hist.calls < hist.budget
    /\ customers' = RemoveCustomer(customers, index)
    /\ ret' = [op |-> "remove_customer", index |-> index,
               value |-> RemovedCustomer(customers, index)]
    /\ hist' = [hist EXCEPT
                  !.calls = @ + 1, !.acted = TRUE,
                  !.inside = @ - Bool2Nat(RemovedCustomer(customers, index)
                                          # NoCustomer)]
    /\ UNCHANGED <<svcVars, stationVars>>
    /\ Unchanged_chaos

\* ServiceController.serve_drink
SC_serve_drink(recipe_steps) ==
    LET customer_index == selected_customer_index
        bound == customer_index # NoIndex /\ customers[customer_index] # NoCustomer
    IN  /\ hist.calls < hist.budget
        /\ IF bound
           THEN LET customer == customers[customer_index]
                    desired_recipe == FindRecipe(customer.desired_recipe)
                    correct == /\ desired_recipe # "missing"
                               /\ Matches(desired_recipe, recipe_steps)
                    tip == calculate_tip(customer, correct, customer.patience,
                                         customer.max_patience)
                IN  /\ customers_served' = customers_served + 1
                    /\ total_tips' = total_tips + tip
                    /\ customers' = RemoveCustomer(customers, customer_index)
                    /\ ret' = [op |-> "serve_drink", steps |-> recipe_steps,
                               bound |-> TRUE, customer |-> customer,
                               value |-> [success |-> correct, tip |-> tip]]
                    /\ hist' = [hist EXCEPT !.calls = @ + 1, !.acted = TRUE,
                                            !.inside = @ - 1]
           ELSE /\ UNCHANGED <<customers_served, total_tips, customers>>
                /\ ret' = [op |-> "serve_drink", steps |-> recipe_steps,
                           bound |-> FALSE, customer |-> NoCustomer,
                           value |-> [success |-> FALSE, tip |-> 0]]
                /\ hist' = [hist EXCEPT !.calls = @ + 1, !.acted = TRUE]
        /\ UNCHANGED <<customer_pool, time_remaining, spawn_timer, cafe_heat,
                       active, stationVars>>
        /\ Unchanged_chaos

\* Customer.reveal, duration = 2.0
Reveal(c) ==
    IF c.quirk = "invisible"
    THEN [c EXCEPT !.is_visible = TRUE, !.reveal_timer = Sec(2)]
    ELSE c

\* ServiceController.ring_bell
SC_ring_bell ==
    /\ hist.calls < hist.budget
    /\ customers' = [i \in Slots |-> IF customers[i] # NoCustomer
                                     THEN Reveal(customers[i])
                                     ELSE NoCustomer]
    /\ ret' = [op |-> "ring_bell"]
    /\ hist' = [hist EXCEPT !.calls = @ + 1, !.acted = TRUE]
    /\ UNCHANGED <<svcVars, stationVars>>
    /\ Unchanged_chaos

\* ServiceState.add_ingredient: forwarded only while a slot is selected
SS_add_ingredient(ingredient) ==
    IF selected_customer_index # NoIndex
    THEN ST_add_ingredient(ingredient)
    ELSE /\ hist.calls < hist.budget
         /\ ret' = [op |-> "host_add_ingredient", ingredient |-> ingredient]
         /\ hist' = [hist EXCEPT !.calls = @ + 1, !.acted = TRUE]
         /\ UNCHANGED <<svcVars, customers, stationVars, chaosVars, upgVars,
                       appVars>>

\* ServiceState.serve_drink: with a non-empty recipe and a selected slot,
\* ServiceController.serve_drink(recipe), then ChaosManager.try_resolve while
\* an event is active, then BrewingStation.complete_order
SS_serve_drink ==
    LET recipe == current_recipe
        customer_index == selected_customer_index
        called == recipe # <<>> /\ customer_index # NoIndex
        bound == called /\ customers[customer_index] # NoCustomer
    IN  /\ hist.calls < hist.budget
        /\ IF bound
           THEN LET customer == customers[customer_index]
                    desired_recipe == FindRecipe(customer.desired_recipe)
                    correct == /\ desired_recipe # "missing"
                               /\ Matches(desired_recipe, recipe)
                    tip == calculate_tip(customer, correct, customer.patience,
                                         customer.max_patience)
                IN  /\ customers_served' = customers_served + 1
                    /\ total_tips' = total_tips + tip
                    /\ customers' = RemoveCustomer(customers, customer_index)
                    /\ ret' = [op |-> "host_serve_drink", called |-> TRUE,
                               steps |-> recipe, bound |-> TRUE,
                               customer |-> customer,
                               value |-> [success |-> correct, tip |-> tip]]
                    /\ hist' = [hist EXCEPT !.calls = @ + 1, !.acted = TRUE,
                                            !.inside = @ - 1]
           ELSE /\ UNCHANGED <<customers_served, total_tips, customers>>
                /\ ret' = [op |-> "host_serve_drink", called |-> called,
                           steps |-> recipe, bound |-> FALSE,
                           customer |-> NoCustomer,
                           value |-> [success |-> FALSE, tip |-> 0]]
                /\ hist' = [hist EXCEPT !.calls = @ + 1, !.acted = TRUE]
        /\ IF called /\ ~ResolveRefused(current_event)
              /\ can_resolve("serve_drink", List(recipe))
           THEN current_event' = PortalResolve(current_event)
           ELSE UNCHANGED current_event
        /\ IF called
           THEN /\ current_recipe' = <<>>
                /\ is_brewing' = FALSE
                /\ selected_customer_index' = NoIndex
           ELSE UNCHANGED <<current_recipe, is_brewing,
                            selected_customer_index>>
        /\ UNCHANGED <<customer_pool, time_remaining, spawn_timer, cafe_heat,
                       active, current_brew_time, event_triggered, upgVars,
                       appVars>>

TimeUpStrict(t) == t < 0

\* if self.time_remaining <= 0
TimeUp(t) == t <= 0

UnflooredTime(t) == t

\* self.time_remaining -= dt; if self.time_remaining <= 0:
\* self.time_remaining = 0
FlooredTime(t) == IF TimeUp(t) THEN 0 ELSE t

\* the species test of the heat step
HasFireElemental(cs) ==
    \E i \in Slots : cs[i] # NoCustomer /\ cs[i].species = "fire_elemental"

\* cafe_heat after the heat step; heat is in US units per degree
HeatAfter(heat, cs, dt) ==
    IF HasFireElemental(cs) THEN Min(Sec(100), heat + dt * 10)
    ELSE Max(0, heat - dt * 5)

UpdateNeverSkipped(is_active) == FALSE

\* if not self.active: return events
UpdateSkipped(is_active) == ~is_active

\* ServiceController.update, handed the modifiers of the UpgradeManager as
\* ServiceState.update does (modifiers.get(key, 1.0): each key is present)
ControllerUpdate(dt, draws) ==
    IF UpdateSkipped(active)
    THEN /\ ret' = [op |-> "update",
                    value |-> [customers_left |-> <<>>, day_ended |-> FALSE]]
         /\ UNCHANGED <<svcVars, customers, stationVars, hist>>
    ELSE LET t1 == time_remaining - dt
             ended == TimeUp(t1)
             active1 == ~ended
             timer1 == spawn_timer - dt
             attempt == /\ timer1 <= 0
                        /\ customers_served + Cardinality(Occupied(customers))
                              < ServedPlusActiveCap
             spawns == attempt /\ SpawnPossible(customer_pool, active1)
             spawned == spawns /\ AddCustomerOk(customers)
             decay == modifiers.patience_decay
             brew_speed == modifiers.brew_speed
         IN  \E template \in (IF spawned THEN customer_pool ELSE {NoCustomer}),
                rid \in (IF spawned THEN draws.recipes ELSE {"none"}),
                jitter \in (IF spawned THEN draws.jitters ELSE {0}) :
               LET queued == IF spawned
                             THEN AddCustomer(customers, NewCustomer(template, rid))
                             ELSE customers
                   left_customers == QueueLeft(queued, dt, decay)
                   after == QueueUpdate(queued, dt, decay)
               IN  /\ time_remaining' = FlooredTime(t1)
                   /\ active' = active1
                   /\ spawn_timer' = IF spawned THEN spawn_interval + jitter
                                     ELSE timer1
                   /\ customers' = after
                   /\ current_brew_time' =
                        BrewTimeAfter(is_brewing, current_recipe,
                                      current_brew_time, dt, brew_speed)
                   /\ cafe_heat' = HeatAfter(cafe_heat, after, dt)
                   /\ ret' = [op |-> "update",
                              value |-> [customers_left |-> left_customers,
                                         day_ended |-> ended]]
                   /\ hist' = [hist EXCEPT
                                 !.elapsed = @ + dt,
                                 !.day_ends = Min(@ + Bool2Nat(ended), 2),
                                 !.spawned = @ + Bool2Nat(spawned),
                                 !.left = @ + Len(left_customers),
                                 !.inside = @ + Bool2Nat(spawned)
                                              - Len(left_customers),
                                 !.bound_left =
                                    @ \/ (BoundOccupied
                                          /\ after[selected_customer_index]
                                                = NoCustomer)]
                   /\ UNCHANGED <<customer_pool, customers_served, total_tips,
                                  current_recipe, is_brewing,
                                  selected_customer_index>>

\* ServiceController.update called on its own
SC_update(dt, draws) == ControllerUpdate(dt, draws) /\ Unchanged_chaos

(***************************************************************************)
(* Specifications of the service day.                                      *)
(***************************************************************************)
\* ServiceController.__init__ with either outcome of load_customers, next
\* to a ChaosManager as constructed
InitService ==
    /\ customer_pool \in {EmptyPool, LoadedPool}
    /\ time_remaining = day_time
    /\ customers_served = 0
    /\ total_tips = 0
    /\ spawn_timer = 0
    /\ cafe_heat = 0
    /\ active = FALSE
    /\ customers = EmptyQueue
    /\ current_recipe = <<>>
    /\ current_brew_time = 0
    /\ is_brewing = FALSE
    /\ selected_customer_index = NoIndex
    /\ current_event = NoEvent
    /\ event_triggered = FALSE
    /\ modifiers \in DayModifiers
    /\ purchased_upgrades = IF modifiers.patience_decay = 100 THEN <<>>
                            ELSE <<"calming_fern">>
    /\ IdleApp
    /\ ret = [op |-> "init"]
    /\ hist = H0

\* customers handed to add_customer directly: the patient template, with
\* the recipe the scheduled spawns below do not draw
FreshCustomers ==
    {NewCustomer(t, "flaming_meteor_espresso") :
        t \in {u \in LoadedPool : u.patience > 12}}
\* indices handed to remove_customer: both out-of-range sides, two slots
RemoveIndices == {-1, 0, 1, max_size}

\* a day the player takes part in: coarse steps, spawns on schedule, one
\* recipe drawn
PlayDraws == [recipes |-> {"milky_way_mocha"}, jitters |-> {0}]

NextService ==
    \/ SC_start_day(PlayDraws)
    \/ SC_spawn_customer(PlayDraws)
    \/ \E c \in FreshCustomers : Q_add_customer(c)
    \/ \E i \in RemoveIndices : Q_remove_customer(i)
    \/ \E i \in Slots : SS_select_customer(i)
    \/ ST_cancel_order
    \/ \E steps \in ServeSeqs : SC_serve_drink(steps)
    \/ \E dt \in PlayDts : SC_update(dt, PlayDraws)

SpecService == InitService /\ [][NextService]_vars

\* a day nobody plays: start_day, then update only.  update never reads the
\* desired recipe, so one recipe is drawn; the jitter takes both extremes.
DayDraws == [recipes |-> {"milky_way_mocha"}, jitters |-> {Sec(0 - 2), Sec(2)}]

NextDay ==
    \/ SC_start_day(DayDraws)
    \/ \E dt \in ServiceDts : SC_update(dt, DayDraws)

SpecDay == InitService /\ [][NextDay]_vars

\* the calls the claims about the ended day name, around days of coarse
\* steps: update, spawn_customer, serve_drink and ring_bell, with
\* select_customer to bind a slot
NextAfterHours ==
    \/ SC_start_day(PlayDraws)
    \/ \E dt \in PlayDts : SC_update(dt, PlayDraws)
    \/ SC_spawn_customer(PlayDraws)
    \/ \E i \in Slots : SS_select_customer(i)
    \/ \E steps \in ServeSeqs : SC_serve_drink(steps)
    \/ SC_ring_bell

SpecAfterHours == InitService /\ [][NextAfterHours]_vars

\* the player at the counter: a day of coarse steps in which a customer is
\* selected, ingredients are added one at a time and the drink is served.
\* The day the player acts in is the last one started (the station's elapsed
\* time is not reset by start_day and would grow day after day).
CounterIngredients == {"beans", "milk", "stardust"}

InitCounter ==
    /\ customer_pool = CounterPool
    /\ time_remaining = day_time
    /\ customers_served = 0
    /\ total_tips = 0
    /\ spawn_timer = 0
    /\ cafe_heat = 0
    /\ active = FALSE
    /\ customers = EmptyQueue
    /\ current_recipe = <<>>
    /\ current_brew_time = 0
    /\ is_brewing = FALSE
    /\ selected_customer_index = NoIndex
    /\ current_event = NoEvent
    /\ event_triggered = FALSE
    /\ modifiers = NewModifiers
    /\ purchased_upgrades = <<>>
    /\ IdleApp
    /\ ret = [op |-> "init"]
    /\ hist = [H0 EXCEPT !.budget = MaxCounterCalls]

\* start_day until the player's first action
Counter_start_day == hist.calls = 0 /\ SC_start_day(PlayDraws)

NextCounter ==
    \/ Counter_start_day
    \/ \E dt \in PlayDts : SC_update(dt, PlayDraws)
    \/ \E i \in Slots : SS_select_customer(i)
    \/ \E ingredient \in CounterIngredients : SS_add_ingredient(ingredient)
    \/ SS_serve_drink

SpecCounter == InitCounter /\ [][NextCounter]_vars

(***************************************************************************)
(* ui/screens.py : the screens of a session, from the main menu through    *)
(* service days and the upgrade shop                                       *)
(***************************************************************************)
Unchanged_managers == UNCHANGED <<upgVars, shop_modifiers, shop_purchased_upgrades>>

\* MainMenuState.start_game, with DayIntroState.on_enter
MM_start_game ==
    /\ current_state = "main_menu"
    /\ game_data' = [game_data EXCEPT !.day = 1, !.coins = 10]
    /\ day_number' = 1
    /\ ChangeState("day_intro")
    /\ ret' = [op |-> "start_game"]
    /\ UNCHANGED <<svcVars, customers, stationVars, chaosVars, results,
                   current_day, hist>>
    /\ Unchanged_managers

\* DayIntroState.advance_dialogue once the dialogue is complete (or update
\* after the auto-advance delay): change_state(SERVICE, {"day": day_number}),
\* with ServiceState.on_enter: start_day(day) and chaos_manager.reset()
DI_advance_dialogue(draws) ==
    /\ current_state = "day_intro"
    /\ StartDay(draws)
    /\ current_event' = NoEvent
    /\ event_triggered' = FALSE
    /\ ChangeState("service")
    /\ UNCHANGED <<game_data, results, day_number, current_day>>
    /\ Unchanged_managers

\* ServiceState.update: ServiceController.update with the modifiers of the
\* state's own upgrade_manager; on day_ended change_state(DAY_RESULTS,
\* results_data) with DayResultsState.on_enter and return; otherwise
\* chaos_manager.check_trigger(time_remaining) and chaos_manager.update(dt)
SS_update(dt, draws) ==
    /\ current_state = "service"
    /\ ControllerUpdate(dt, draws)
    /\ IF ret'.value.day_ended
       THEN LET tips_earned == total_tips
                time_bonus == time_remaining' \div US
            IN  /\ results' = [day |-> game_data.day,
                               customers_served |-> customers_served,
                               tips_earned |-> tips_earned,
                               time_bonus |-> time_bonus,
                               total_earnings |-> tips_earned + time_bonus]
                /\ ChangeState("day_results")
                /\ UNCHANGED chaosVars
       ELSE LET fires == ShouldTrigger(event_triggered, time_remaining')
                e1 == IF fires THEN PortalStart(NewPortalEvent)
                      ELSE current_event
            IN  /\ event_triggered' = (event_triggered \/ fires)
                /\ current_event' = IF ManagerForwards(e1)
                                    THEN PortalUpdate(e1, dt) ELSE e1
                /\ UNCHANGED <<results, smVars>>
    /\ UNCHANGED <<game_data, day_number, current_day>>
    /\ Unchanged_managers

\* DayResultsState.continue_to_shop, with UpgradeShopState.on_enter
DR_continue_to_shop ==
    /\ current_state = "day_results"
    /\ game_data' = [game_data EXCEPT !.coins = @ + results.total_earnings]
    /\ current_day' = results.day
    /\ ChangeState("upgrade_shop")
    /\ ret' = [op |-> "continue_to_shop"]
    /\ UNCHANGED <<svcVars, customers, stationVars, chaosVars, results,
                   day_number, hist>>
    /\ Unchanged_managers

\* UpgradeShopState.purchase_upgrade: the shop's own manager is bought from
US_purchase_upgrade(upgrade_id) ==
    LET coins == game_data.coins
        remaining_coins == PurchaseResult(shop_purchased_upgrades, upgrade_id,
                                          coins)
    IN  /\ current_state = "upgrade_shop"
        /\ shop_purchased_upgrades' =
              PurchaseList(shop_purchased_upgrades, upgrade_id, coins)
        /\ shop_modifiers' =
              PurchaseModifiers(shop_purchased_upgrades, shop_modifiers,
                                upgrade_id, coins)
        /\ game_data' = IF remaining_coins # Nothing
                        THEN [game_data EXCEPT !.coins = remaining_coins.some]
                        ELSE game_data
        /\ ret' = [op |-> "purchase_upgrade", upgrade_id |-> upgrade_id,
                   value |-> remaining_coins]
        /\ UNCHANGED <<svcVars, customers, stationVars, chaosVars, upgVars,
                       smVars, results, day_number, current_day, hist>>

\* UpgradeShopState.start_next_day, with DayIntroState.on_enter
US_start_next_day ==
    /\ current_state = "upgrade_shop"
    /\ current_day < MaxDays
    /\ game_data' = [game_data EXCEPT !.modifiers = shop_modifiers,
                                      !.day = current_day + 1]
    /\ current_day' = current_day + 1
    /\ day_number' = current_day + 1
    /\ ChangeState("day_intro")
    /\ ret' = [op |-> "start_next_day"]
    /\ UNCHANGED <<svcVars, customers, stationVars, chaosVars, results, hist>>
    /\ Unchanged_managers

\* a session: one patient template, one two-step recipe drawn, spawns on
\* schedule, coarse steps
SessionPool == {t \in LoadedPool : t.quirk = "none"}
SessionDraws == [recipes |-> {"flaming_meteor_espresso"}, jitters |-> {0}]
SessionIngredients == {"beans", "meteor_shot"}
SessionDts == {Sec(MaxPlayDtSec)}

\* main(): every state constructed, the main menu entered
InitSession ==
    /\ customer_pool = SessionPool
    /\ time_remaining = day_time
    /\ customers_served = 0
    /\ total_tips = 0
    /\ spawn_timer = 0
    /\ cafe_heat = 0
    /\ active = FALSE
    /\ customers = EmptyQueue
    /\ current_recipe = <<>>
    /\ current_brew_time = 0
    /\ is_brewing = FALSE
    /\ selected_customer_index = NoIndex
    /\ current_event = NoEvent
    /\ event_triggered = FALSE
    /\ modifiers = NewModifiers
    /\ purchased_upgrades = <<>>
    /\ IdleApp
    /\ ret = [op |-> "init"]
    /\ hist = [H0 EXCEPT !.budget = MaxSessionCalls]

\* the player's handlers are those of the current state
Play_select_customer(index) ==
    current_state = "service" /\ SS_select_customer(index)
Play_add_ingredient(ingredient) ==
    current_state = "service" /\ SS_add_ingredient(ingredient)
Play_serve_drink == current_state = "service" /\ SS_serve_drink

NextSession ==
    \/ MM_start_game
    \/ DI_advance_dialogue(SessionDraws)
    \/ \E dt \in SessionDts : SS_update(dt, SessionDraws)
    \/ \E i \in Slots : Play_select_customer(i)
    \/ \E ingredient \in SessionIngredients : Play_add_ingredient(ingredient)
    \/ Play_serve_drink
    \/ DR_continue_to_shop
    \/ \E upgrade_id \in UpgradeIds : US_purchase_upgrade(upgrade_id)
    \/ US_start_next_day

SpecSession == InitSession /\ [][NextSession]_vars

(***************************************************************************)
(* A day driven by start_day, update and serve_drink only, served fast     *)
(* enough for served + waiting customers to reach the cap.                 *)
(***************************************************************************)
\* ServiceController.__init__ next to a ChaosManager and the host objects as
\* constructed, for a given template table, manager state and call budget
Constructed(pool, mods, budget) ==
    /\ customer_pool = pool
    /\ time_remaining = day_time
    /\ customers_served = 0
    /\ total_tips = 0
    /\ spawn_timer = 0
    /\ cafe_heat = 0
    /\ active = FALSE
    /\ customers = EmptyQueue
    /\ current_recipe = <<>>
    /\ current_brew_time = 0
    /\ is_brewing = FALSE
    /\ selected_customer_index = NoIndex
    /\ current_event = NoEvent
    /\ event_triggered = FALSE
    /\ modifiers = mods
    /\ purchased_upgrades = IF mods.patience_decay = 100 THEN <<>>
                            ELSE <<"calming_fern">>
    /\ IdleApp
    /\ ret = [op |-> "init"]
    /\ hist = [H0 EXCEPT !.budget = budget]

RushDraws == [recipes |-> {"milky_way_mocha"}, jitters |-> {Sec(0 - 2), Sec(2)}]
RushDts == {Sec(MaxRushDtSec)}
RushSeqs == {<<"beans", "milk", "stardust">>}

InitRush == \E mods \in DayModifiers : Constructed(SessionPool, mods, MaxRushCalls)

NextRush ==
    \/ SC_start_day(RushDraws)
    \/ \E dt \in RushDts : SC_update(dt, RushDraws)
    \/ \E i \in Slots : SS_select_customer(i)
    \/ \E steps \in RushSeqs : SC_serve_drink(steps)

SpecRush == InitRush /\ [][NextRush]_vars

(***************************************************************************)
(* systems/service.py : CustomerQueue, called directly                     *)
(***************************************************************************)
\* CustomerQueue.update called directly with the manager's modifiers
Q_update(dt) ==
    /\ customers' = QueueUpdate(customers, dt, modifiers.patience_decay)
    /\ ret' = [op |-> "queue_update", dt |-> dt,
               value |-> QueueLeft(customers, dt, modifiers.patience_decay)]
    /\ hist' = [hist EXCEPT
                  !.left = @ + Len(QueueLeft(customers, dt,
                                             modifiers.patience_decay)),
                  !.inside = @ - Len(QueueLeft(customers, dt,
                                               modifiers.patience_decay))]
    /\ UNCHANGED <<svcVars, stationVars>>
    /\ Unchanged_chaos

\* customers of both templates, steps of 0 s and of a few seconds
QueueCustomers == {NewCustomer(t, "milky_way_mocha") : t \in LoadedPool}
QueueDts == {0, Sec(MaxQueueDtSec)}

InitQueue == \E mods \in DayModifiers : Constructed(LoadedPool, mods, MaxQueueCalls)

NextQueue ==
    \/ \E c \in QueueCustomers : Q_add_customer(c)
    \/ \E i \in RemoveIndices : Q_remove_customer(i)
    \/ \E dt \in QueueDts : Q_update(dt)

SpecQueue == InitQueue /\ [][NextQueue]_vars

(***************************************************************************)
(* Days whose spawns draw from every recipe get_random_recipe can return.  *)
(***************************************************************************)
OrderDraws == [recipes |-> RegularRecipeIds, jitters |-> {0}]

InitOrders == Constructed(LoadedPool, NewModifiers, MaxHostCalls)

NextOrders ==
    \/ SC_start_day(OrderDraws)
    \/ SC_spawn_customer(OrderDraws)
    \/ \E dt \in PlayDts : SC_update(dt, OrderDraws)

SpecOrders == InitOrders /\ [][NextOrders]_vars

(***************************************************************************)
(* core/app.py, ui/screens.py : pausing a session                          *)
(***************************************************************************)
\* change_state(previous_state_id) from the pause screen, no data handed
\* over: the on_enter of the state returned to runs with data = None.
\* ServiceState.on_enter calls start_day(1) and chaos_manager.reset();
\* DayResultsState.on_enter recomputes total_earnings; the other states keep
\* their fields.
Resume(draws) ==
    /\ current_state = "pause"
    /\ previous_state_id # NoState
    /\ ChangeState(previous_state_id)
    /\ IF previous_state_id = "service"
       THEN /\ StartDay(draws)
            /\ current_event' = NoEvent
            /\ event_triggered' = FALSE
            /\ UNCHANGED results
       ELSE /\ results' = [results EXCEPT
                             !.total_earnings = results.tips_earned
                                                 + results.time_bonus]
            /\ ret' = [op |-> "resume"]
            /\ UNCHANGED <<svcVars, customers, stationVars, chaosVars, hist>>
    /\ UNCHANGED <<game_data, day_number, current_day>>
    /\ Unchanged_managers

\* App.run on KEYDOWN K_ESCAPE: unpause from the pause screen, pause from any
\* state but the main menu and the dialogue
AP_escape(draws) ==
    IF current_state = "pause"
    THEN Resume(draws)
    ELSE /\ current_state \notin {"main_menu", "dialogue"}
         /\ hist.pauses < MaxPauses
         /\ ChangeState("pause")
         /\ ret' = [op |-> "pause"]
         /\ hist' = [hist EXCEPT !.pauses = @ + 1]
         /\ UNCHANGED <<svcVars, customers, stationVars, chaosVars, game_data,
                        results, day_number, current_day>>
         /\ Unchanged_managers

\* PauseState.resume_game (the Resume button)
PS_resume_game(draws) == Resume(draws)

\* PauseState.return_to_menu
PS_return_to_menu ==
    /\ current_state = "pause"
    /\ ChangeState("main_menu")
    /\ ret' = [op |-> "return_to_menu"]
    /\ UNCHANGED <<svcVars, customers, stationVars, chaosVars, game_data,
                   results, day_number, current_day, hist>>
    /\ Unchanged_managers

NextPause ==
    \/ NextSession
    \/ AP_escape(SessionDraws)
    \/ PS_resume_game(SessionDraws)
    \/ PS_return_to_menu

SpecPause == InitSession /\ [][NextPause]_vars


(***************************************************************************)
(* ui/screens.py : a service day in which the player can brew the          *)
(* banishing sequence while the portal is open                             *)
(***************************************************************************)
MaxBanishCalls == 5
BanishDraws == [recipes |-> {"milky_way_mocha"}, jitters |-> {0}]
BanishDts == {Sec(MaxPlayDtSec)}
BanishIngredients == {"beans", "moonlight", "sigil"}

InitBanish == Constructed(SessionPool, NewModifiers, MaxBanishCalls)

NextBanish ==
    \/ MM_start_game
    \/ DI_advance_dialogue(BanishDraws)
    \/ \E dt \in BanishDts : SS_update(dt, BanishDraws)
    \/ \E i \in Slots : Play_select_customer(i)
    \/ \E ingredient \in BanishIngredients : Play_add_ingredient(ingredient)
    \/ Play_serve_drink

SpecBanish == InitBanish /\ [][NextBanish]_vars


(***************************************************************************)
(* ui/screens.py : sessions whose frame time does not divide the day, so   *)
(* that the last tick of a day takes the clock below zero                  *)
(***************************************************************************)
MaxResultsDtSec == 20
ResultsDts == {Sec(MaxResultsDtSec)}

NextResults ==
    \/ MM_start_game
    \/ DI_advance_dialogue(SessionDraws)
    \/ \E dt \in ResultsDts : SS_update(dt, SessionDraws)
    \/ \E i \in Slots : Play_select_customer(i)
    \/ \E ingredient \in SessionIngredients : Play_add_ingredient(ingredient)
    \/ Play_serve_drink
    \/ DR_continue_to_shop
    \/ \E upgrade_id \in UpgradeIds : US_purchase_upgrade(upgrade_id)
    \/ US_start_next_day

SpecResults == InitSession /\ [][NextResults]_vars


(***************************************************************************)
(* core/state.py : StateManager, called directly.  A state is named by the *)
(* id it is registered under; each id is registered at most once, with a   *)
(* state of its own, as main() does.                                       *)
(***************************************************************************)
\* StateManager.register_state of a state not registered yet
SM_register_state(state_id) ==
    /\ state_id \notin states
    /\ states' = states \cup {state_id}
    /\ ret' = [op |-> "register_state", state_id |-> state_id]
    /\ UNCHANGED <<current_state, previous_state_id, state_is_active>>
    /\ UNCHANGED <<svcVars, customers, stationVars, chaosVars, upgVars,
                   shop_modifiers, shop_purchased_upgrades, game_data, results,
                   day_number, current_day, hist>>

\* StateManager.change_state: ValueError for an id that is not registered
SM_change_state(state_id) ==
    /\ IF state_id \notin states
       THEN /\ ret' = [op |-> "change_state", state_id |-> state_id,
                       raised |-> TRUE]
            /\ UNCHANGED smVars
       ELSE /\ ChangeState(state_id)
            /\ ret' = [op |-> "change_state", state_id |-> state_id,
                       raised |-> FALSE]
    /\ UNCHANGED <<svcVars, customers, stationVars, chaosVars, upgVars,
                   shop_modifiers, shop_purchased_upgrades, game_data, results,
                   day_number, current_day, hist>>

\* StateManager.__init__ in an App as constructed: nothing registered, no
\* current state
InitStates ==
    /\ customer_pool = LoadedPool
    /\ time_remaining = day_time
    /\ customers_served = 0
    /\ total_tips = 0
    /\ spawn_timer = 0
    /\ cafe_heat = 0
    /\ active = FALSE
    /\ customers = EmptyQueue
    /\ current_recipe = <<>>
    /\ current_brew_time = 0
    /\ is_brewing = FALSE
    /\ selected_customer_index = NoIndex
    /\ current_event = NoEvent
    /\ event_triggered = FALSE
    /\ modifiers = NewModifiers
    /\ purchased_upgrades = <<>>
    /\ shop_modifiers = NewModifiers
    /\ shop_purchased_upgrades = <<>>
    /\ game_data = NewGameData
    /\ results = NewResults
    /\ day_number = 1
    /\ current_day = 1
    /\ current_state = NoState
    /\ states = {}
    /\ previous_state_id = NoState
    /\ state_is_active = [sid \in StateIDs |-> FALSE]
    /\ ret = [op |-> "init"]
    /\ hist = H0

NextStates ==
    \/ \E state_id \in StateIDs : SM_register_state(state_id)
    \/ \E state_id \in StateIDs : SM_change_state(state_id)

SpecStates == InitStates /\ [][NextStates]_vars

(***************************************************************************)
(* systems/upgrades.py : UpgradeManager, called directly                   *)
(***************************************************************************)
\* ids and coin amounts handed to the manager: both upgrades and an id that
\* is not in the catalogue; amounts around both costs
PurchaseIds == UpgradeIds \cup {"golden_kettle"}
CoinAmounts == {0, 14, 15, 19, 20, 35}

Unchanged_but_upgrades ==
    UNCHANGED <<svcVars, customers, stationVars, chaosVars, appVars, hist>>

\* UpgradeManager.purchase
UM_purchase(upgrade_id, coins) ==
    /\ purchased_upgrades' = PurchaseList(purchased_upgrades, upgrade_id, coins)
    /\ modifiers' = PurchaseModifiers(purchased_upgrades, modifiers,
                                      upgrade_id, coins)
    /\ ret' = [op |-> "purchase", upgrade_id |-> upgrade_id, coins |-> coins,
               value |-> PurchaseResult(purchased_upgrades, upgrade_id, coins)]
    /\ Unchanged_but_upgrades

\* UpgradeManager.can_afford
UM_can_afford(upgrade_id, coins) ==
    /\ ret' = [op |-> "can_afford", upgrade_id |-> upgrade_id, coins |-> coins,
               value |-> can_afford(upgrade_id, coins)]
    /\ UNCHANGED upgVars
    /\ Unchanged_but_upgrades

\* UpgradeManager.is_purchased
UM_is_purchased(upgrade_id) ==
    /\ ret' = [op |-> "is_purchased", upgrade_id |-> upgrade_id,
               value |-> is_purchased(purchased_upgrades, upgrade_id)]
    /\ UNCHANGED upgVars
    /\ Unchanged_but_upgrades

\* UpgradeManager.get_modifiers: a copy of the modifiers
UM_get_modifiers ==
    /\ ret' = [op |-> "get_modifiers", value |-> modifiers]
    /\ UNCHANGED upgVars
    /\ Unchanged_but_upgrades

\* UpgradeManager.reset
UM_reset ==
    /\ purchased_upgrades' = <<>>
    /\ modifiers' = NewModifiers
    /\ ret' = [op |-> "upgrades_reset"]
    /\ Unchanged_but_upgrades

\* UpgradeManager.__init__
InitUpgrades ==
    /\ IdleService
    /\ current_event = NoEvent
    /\ event_triggered = FALSE
    /\ ret = [op |-> "init"]
    /\ hist = H0

NextUpgrades ==
    \/ \E id \in PurchaseIds, c \in CoinAmounts : UM_purchase(id, c)
    \/ \E id \in PurchaseIds, c \in CoinAmounts : UM_can_afford(id, c)
    \/ \E id \in PurchaseIds : UM_is_purchased(id)
    \/ UM_get_modifiers
    \/ UM_reset

SpecUpgrades == InitUpgrades /\ [][NextUpgrades]_vars

(***************************************************************************)
(* Properties of the chaos subsystem.                                      *)
(***************************************************************************)
HasEvent == current_event # NoEvent
Failed(e) == e # NoEvent /\ ~e.active /\ ~e.resolved
Terminal(e) == e # NoEvent /\ ~e.active

\* C4: in every reachable state of a PortalEvent (after start and any
\* sequence of update, can_resolve and resolve calls with dt >= 0)
\* 0 <= rift_stability <= 100.
C4_StabilityInRange ==
    HasEvent => /\ current_event.rift_stability >= 0
                /\ current_event.rift_stability <= Sec(100)

\* C4 witness: an update whose drain would have gone below 0 left 0.
C4_Witness ==
    /\ HasEvent
    /\ ret.op = "portal_update"
    /\ ret.before.active /\ ~ret.before.resolved
    /\ ret.before.rift_stability - drain_rate * ret.dt < 0
    /\ current_event.rift_stability = 0

\* C5 (as claimed): a PortalEvent started and then only updated in fixed
\* ticks is failed exactly from the tick at which 20 s of simulated time
\* have elapsed, and at that moment pastries_lost = 10.
C5_FailsAt20sWithTenPastries ==
    /\ Failed(current_event) =>
          /\ hist.elapsed >= Sec(20)
          /\ hist.elapsed - fixed_timestep < Sec(20)
          /\ current_event.pastries_lost = 10
    /\ hist.elapsed >= Sec(20) => Failed(current_event)

\* C8: within one day check_trigger returns true and starts a PortalEvent
\* exactly once, on the first call whose time_remaining is <= 45; every
\* other call returns false and leaves the current event untouched, also
\* after the event has been resolved or has failed.
C8_TriggersOnce ==
    /\ hist.triggers <= 1
    /\ ret.op = "check_trigger" =>
          /\ ret.value = (ret.t <= Sec(45) /\ hist.low_calls = 1)
          /\ ret.value => /\ current_event = PortalStart(NewPortalEvent)
                          /\ event_triggered
          /\ ~ret.value => current_event = ret.before

\* C8 witness: a later call with time_remaining <= 45, made after the event
\* failed or was resolved, returned false.
C8_Witness ==
    /\ ret.op = "check_trigger"
    /\ ret.t <= Sec(45)
    /\ ~ret.value
    /\ Terminal(current_event)
    /\ hist.triggers = 1

\* C9: after chaos is triggered at time_remaining = 45, a
\* try_resolve("serve_drink", [beans, moonlight, sigil]) made while the
\* event is active yields resolved = true, active = false and a bonus equal
\* to floor(rift_stability / 10) at the moment of the call, within 0..10.
C9_ResolveBonus ==
    ( /\ ret.op = "try_resolve"
      /\ ret.action = "serve_drink"
      /\ ret.data = List(<<"beans", "moonlight", "sigil">>)
      /\ ret.before # NoEvent
      /\ ret.before.active )
    => /\ current_event.resolved
       /\ ~current_event.active
       /\ ret.value.event = "portal_closed"
       /\ ret.value.bonus \in 0..10
       /\ ret.value.bonus * Sec(10) <= ret.before.rift_stability
       /\ ret.before.rift_stability < (ret.value.bonus + 1) * Sec(10)

\* C9 witness: triggered at 45 s, drained for a while, then banished with
\* a stability that is not a multiple of 10.
C9_Witness ==
    /\ ret.op = "try_resolve"
    /\ hist.trigger_t = Sec(45)
    /\ ret.before # NoEvent
    /\ ret.before.active
    /\ ret.before.rift_stability = Sec(85)
    /\ current_event.resolved
    /\ ret.value = [event |-> "portal_closed", bonus |-> 8]

\* C10: once the current event is resolved or failed it stays as it is for
\* the rest of the day (until reset): try_resolve returns nothing and
\* changes nothing when there is no event or the event is not active,
\* update returns an empty payload, and rift_stability and pastries_lost
\* no longer change.
C10_TerminalIsInert ==
    [][ /\ (Terminal(current_event) /\ ret'.op # "chaos_reset") =>
              /\ current_event' = current_event
              /\ ret'.op = "try_resolve" => ret'.value = [event |-> "none"]
              /\ ret'.op = "chaos_update" => ret'.value = [event |-> "empty"]
        /\ (current_event = NoEvent /\ ret'.op = "try_resolve") =>
              /\ current_event' = NoEvent
              /\ ret'.value = [event |-> "none"]
      ]_vars

\* C10 witness: the banishing sequence was tried on a failed event and
\* nothing came back; the event is still failed.
C10_Witness ==
    /\ ret.op = "try_resolve"
    /\ ret.action = "serve_drink"
    /\ ret.data = List(BanishingSteps)
    /\ Failed(ret.before)
    /\ current_event = ret.before
    /\ ret.value = [event |-> "none"]

(***************************************************************************)
(* Properties of the service day.                                          *)
(***************************************************************************)
NumOccupied == Cardinality(Occupied(customers))

\* C1: after any sequence of start_day, spawn_customer, add_customer,
\* remove_customer, serve_drink and update calls the queue of capacity 5
\* holds at most 5 customers, one per slot (the customers added and not yet
\* removed, served or evicted are exactly the occupied slots); add_customer
\* on a full queue, directly or through spawn_customer, returns false and
\* leaves every slot unchanged.
C1_QueueCapacity ==
    /\ [](/\ DOMAIN customers = Slots
          /\ NumOccupied <= max_size
          /\ hist.inside = NumOccupied)
    /\ [][ (ret'.op \in {"add_customer", "spawn_customer"} /\ Free(customers) = {})
              => (ret'.value = FALSE /\ customers' = customers) ]_vars

\* C1 witness: add_customer was refused on a full queue.
C1_Witness ==
    /\ ret.op = "add_customer"
    /\ ret.value = FALSE
    /\ NumOccupied = max_size

\* C2: serve_drink on a bound, occupied slot succeeds exactly when the
\* sequence equals the desired recipe's steps element by element, and then
\* tip = tip_range[0] + floor((tip_range[1] - tip_range[0]) * patience /
\* max_patience), within the tip range and equal to tip_range[1] at full
\* patience; any other sequence, also a permutation, gives success = false
\* and tip = 0.
C2_ServeResult ==
    [][ ( /\ ret'.op = "serve_drink"
          /\ selected_customer_index # NoIndex
          /\ customers[selected_customer_index] # NoCustomer )
        => LET c == customers[selected_customer_index]
               want == Recipes[c.desired_recipe]
               steps == ret'.steps
               lo == c.tip_range[1]
               hi == c.tip_range[2]
               tip == ret'.value.tip
               same == /\ Len(steps) = Len(want)
                       /\ \A i \in 1..Len(want) : steps[i] = want[i]
           IN  IF same
               THEN /\ ret'.value.success
                    /\ (tip - lo) * c.max_patience <= (hi - lo) * c.patience
                    /\ (hi - lo) * c.patience < (tip - lo + 1) * c.max_patience
                    /\ lo <= tip /\ tip <= hi
                    /\ c.patience = c.max_patience => tip = hi
               ELSE /\ ~ret'.value.success
                    /\ tip = 0
      ]_vars

\* C2 witness: a correct drink served to a customer that has waited, with a
\* tip strictly inside the range.
C2_Witness ==
    /\ ret.op = "serve_drink"
    /\ ret.bound
    /\ ret.value.success
    /\ ret.customer.patience < ret.customer.max_patience
    /\ ret.customer.tip_range[1] < ret.value.tip
    /\ ret.value.tip < ret.customer.tip_range[2]

\* the customers the last update returned in customers_left
LastLeft == IF ret.op = "update" THEN ret.value.customers_left ELSE <<>>

\* C3 (as claimed): every customer created by spawn_customer, in a slot or
\* handed back in customers_left, has 0 <= patience <= max_patience after
\* every update step.
C3_PatienceInRange ==
    /\ \A i \in Occupied(customers) :
          /\ 0 <= customers[i].patience
          /\ customers[i].patience <= customers[i].max_patience
    /\ \A k \in 1..Len(LastLeft) :
          /\ 0 <= LastLeft[k].patience
          /\ LastLeft[k].patience <= LastLeft[k].max_patience

\* C3 (amended): every customer in a queue slot has 0 < patience <=
\* max_patience; a customer in customers_left has patience <= 0, which
\* Customer.update does not clamp.
C3_QueuedPatienceInRange ==
    /\ \A i \in Occupied(customers) :
          /\ 0 < customers[i].patience
          /\ customers[i].patience <= customers[i].max_patience
    /\ \A k \in 1..Len(LastLeft) : LastLeft[k].patience <= 0

\* C3 witness: an update evicted a customer with negative patience while
\* another one, aged but still waiting, stayed in its slot.
C3_Witness ==
    /\ \E k \in 1..Len(LastLeft) : LastLeft[k].patience < 0
    /\ \E i \in Occupied(customers) :
          customers[i].patience < customers[i].max_patience

\* C6 (as claimed): after start_day with a non-empty pool exactly one slot
\* is occupied; with no player action the day is over once 90 s of updates
\* have been applied, the update that reports day_ended finds
\* customers_served = 0, and every customer spawned during the day is then
\* in the customers_left list of an earlier update or still in a slot.
C6_LeftInEarlierTicks ==
    /\ (ret.op = "start_day" /\ customer_pool # {}) => NumOccupied = 1
    /\ hist.elapsed >= day_time => (~active /\ hist.day_ends = 1)
    /\ (ret.op = "update" /\ ret.value.day_ended) =>
          /\ hist.elapsed >= day_time
          /\ customers_served = 0
          /\ hist.spawned = (hist.left - Len(LastLeft)) + NumOccupied

\* C6 (amended): as above, but every customer spawned during the day is in
\* the customers_left list of the day-ending update or of an earlier one, or
\* still in a slot: the update that ends the day still evicts.
C6_IdleDay ==
    /\ (ret.op = "start_day" /\ customer_pool # {}) => NumOccupied = 1
    /\ hist.elapsed >= day_time => (~active /\ hist.day_ends = 1)
    /\ (ret.op = "update" /\ ret.value.day_ended) =>
          /\ hist.elapsed >= day_time
          /\ customers_served = 0
          /\ hist.spawned = hist.left + NumOccupied

\* C6 witness: the update that ended the day evicted a customer itself,
\* others had left before and some are still waiting.
C6_Witness ==
    /\ ret.op = "update"
    /\ ret.value.day_ended
    /\ customer_pool # {}
    /\ Len(LastLeft) > 0
    /\ hist.left > Len(LastLeft)
    /\ NumOccupied > 0
    /\ customers_served = 0

C11_SecondPurchaseIsNoOp ==
    [][ ( /\ ret'.op = "purchase"
          /\ \/ InList(ret'.upgrade_id, purchased_upgrades)
             \/ /\ ret.op = "purchase"
                /\ ret.upgrade_id = ret'.upgrade_id
                /\ ret.coins = ret'.coins )
          => /\ ret'.value = Nothing
             /\ modifiers' = modifiers
             /\ purchased_upgrades' = purchased_upgrades ]_vars

\* C11 witness: an upgrade was bought and the same id, offered again with
\* enough coins, was refused.
C11_Witness ==
    /\ ret.op = "purchase"
    /\ ret.value = Nothing
    /\ InList(ret.upgrade_id, purchased_upgrades)
    /\ ret.coins >= available_upgrades[ret.upgrade_id].cost

\* C12: purchase(id, coins) returns nothing and changes neither the
\* purchased list nor any modifier when id is unknown, already purchased or
\* coins < cost; otherwise it appends id to the purchased list, multiplies
\* exactly the modifier named by effect_key by effect_value and returns
\* coins - cost >= 0.
C12_PurchaseContract ==
    [][ ret'.op = "purchase" =>
          LET id == ret'.upgrade_id
              coins == ret'.coins
              refused == \/ id \notin UpgradeIds
                         \/ InList(id, purchased_upgrades)
                         \/ coins < available_upgrades[id].cost
          IN  IF refused
              THEN /\ ret'.value = Nothing
                   /\ modifiers' = modifiers
                   /\ purchased_upgrades' = purchased_upgrades
              ELSE LET u == available_upgrades[id]
                   IN  /\ purchased_upgrades' = Append(purchased_upgrades, id)
                       /\ modifiers'[u.effect_key] * 100 =
                             modifiers[u.effect_key] * u.effect_value
                       /\ \A k \in ModifierKeys \ {u.effect_key} :
                             modifiers'[k] = modifiers[k]
                       /\ ret'.value = Some(coins - u.cost)
                       /\ coins - u.cost >= 0
      ]_vars

\* C12 witness: both upgrades bought, the second with coins to spare.
C12_Witness ==
    /\ ret.op = "purchase"
    /\ ret.value # Nothing
    /\ ret.value.some > 0
    /\ Len(purchased_upgrades) = 2
    /\ modifiers = [NewModifiers EXCEPT !.brew_speed = 120,
                                        !.patience_decay = 85]

(***************************************************************************)
(* Properties of serving, the ended day and the order of a tick.           *)
(***************************************************************************)
\* C14: serve_drink on a bound, occupied slot adds 1 to customers_served,
\* adds exactly the returned tip to total_tips and empties that slot, correct
\* drink or not, leaving every other slot as it was; with no slot bound or
\* the bound slot empty it returns {success = false, tip = 0} and changes no
\* counter and no slot.
C14_ServeFrame ==
    [][ ret'.op = "serve_drink" =>
          LET k == selected_customer_index
          IN  IF k # NoIndex /\ customers[k] # NoCustomer
              THEN /\ customers_served' = customers_served + 1
                   /\ total_tips' = total_tips + ret'.value.tip
                   /\ customers'[k] = NoCustomer
                   /\ \A i \in Slots \ {k} : customers'[i] = customers[i]
              ELSE /\ ret'.value = [success |-> FALSE, tip |-> 0]
                   /\ customers_served' = customers_served
                   /\ total_tips' = total_tips
                   /\ customers' = customers
      ]_vars

\* C14 witness: a wrong drink was served to the customer of a bound slot
\* while a later slot was occupied; the customer is gone and counted.
C14_Witness ==
    /\ ret.op = "serve_drink"
    /\ ret.bound
    /\ ~ret.value.success
    /\ customers_served = 1
    /\ customers[selected_customer_index] = NoCustomer
    /\ \E i \in Slots : i > selected_customer_index /\ customers[i] # NoCustomer

\* the day has run out: active is false after time_remaining hit 0
DayOver == ~active /\ time_remaining = 0 /\ hist.day_ends = 1

\* C18 (as claimed): once the day has ended no update, spawn_customer,
\* serve_drink or ring_bell call changes customers_served, total_tips,
\* time_remaining or the queue contents, until start_day.
C18_EndedDayIsTerminal ==
    [][ ( /\ DayOver
          /\ ret'.op \in {"update", "spawn_customer", "serve_drink", "ring_bell"} )
        => /\ customers_served' = customers_served
           /\ total_tips' = total_tips
           /\ time_remaining' = time_remaining
           /\ customers' = customers ]_vars

\* C19: while the controller is not active, update returns
\* {customers_left: [], day_ended: false} and leaves time_remaining,
\* spawn_timer, cafe_heat, the queue with its customers' patience and the
\* brewing station unchanged; spawn_customer returns false and adds nobody
\* when the controller is not active or the template pool is empty.
C19_InactiveNoOps ==
    [][ /\ (ret'.op = "update" /\ ~active) =>
              /\ ret'.value = [customers_left |-> <<>>, day_ended |-> FALSE]
              /\ UNCHANGED <<time_remaining, spawn_timer, cafe_heat, active,
                             customers, stationVars>>
        /\ (ret'.op = "spawn_customer" /\ (~active \/ customer_pool = {})) =>
              /\ ret'.value = FALSE
              /\ UNCHANGED <<svcVars, customers, stationVars>>
      ]_vars

\* C19 witness: an update after the day ended, with customers still waiting
\* and an order in progress, did nothing.
C19_Witness ==
    /\ ret.op = "update"
    /\ DayOver
    /\ NumOccupied > 0
    /\ is_brewing
    /\ spawn_timer < 0

\* C20: on an active tick the time decrement and day-end check come before
\* the spawn attempt, the spawn before aging and eviction, and eviction
\* before heat: on the tick that ends the day nobody is spawned and the
\* spawn timer is not rescheduled; a customer spawned by a tick is aged by
\* that tick; the heat step looks at the queue left by eviction.
C20_TickOrder ==
    [][ (ret'.op = "update" /\ active) =>
          LET dt == hist'.elapsed - hist.elapsed
              fire == \E i \in Slots : /\ customers'[i] # NoCustomer
                                       /\ customers'[i].species = "fire_elemental"
          IN  /\ ret'.value.day_ended =>
                    /\ hist'.spawned = hist.spawned
                    /\ spawn_timer' = spawn_timer - dt
                    /\ \A i \in Free(customers) : customers'[i] = NoCustomer
              /\ (hist'.spawned = hist.spawned + 1) =>
                    LET k == FirstFree(customers)
                    IN  \/ /\ customers'[k] # NoCustomer
                           /\ customers'[k].patience =
                                 customers'[k].max_patience
                                   - (dt * modifiers.patience_decay) \div 100
                        \/ /\ customers'[k] = NoCustomer
                           /\ Len(ret'.value.customers_left) > 0
              /\ fire => cafe_heat' >= cafe_heat
              /\ ~fire => cafe_heat' <= cafe_heat
      ]_vars

\* C20 witness: the tick that ended the day found the spawn timer expired,
\* a free slot and fewer than 8 customers served or waiting, and spawned
\* nobody.
C20_Witness ==
    /\ ret.op = "update"
    /\ ret.value.day_ended
    /\ customer_pool # {}
    /\ spawn_timer <= 0
    /\ NumOccupied + Len(ret.value.customers_left) < max_size
    /\ customers_served + NumOccupied + Len(ret.value.customers_left)
          < ServedPlusActiveCap

(***************************************************************************)
(* Properties of the brewing station.                                      *)
(***************************************************************************)
\* C16 (as claimed): BrewingStation.update returns true exactly on the tick
\* on which the elapsed brew time crosses the per-step threshold of 1.2 s,
\* and false on the ticks that follow the crossing.
C16_StepDoneIsAPulse ==
    [][ ret'.op = "station_update" =>
          ret'.value = ( /\ current_brew_time < brew_time_per_step
                         /\ current_brew_time' >= brew_time_per_step )
      ]_vars

\* C17: the in-progress sequence always has at most 3 elements, all from
\* the allowed ingredient set; add_ingredient appends the name and resets
\* the per-step elapsed time only when the name is allowed and the sequence
\* has fewer than 3 elements, and otherwise returns false leaving sequence
\* and elapsed time unchanged.
C17_RecipeCap ==
    /\ [](/\ Len(current_recipe) <= 3
          /\ \A i \in 1..Len(current_recipe) :
                current_recipe[i] \in {"beans", "milk", "stardust",
                                       "meteor_shot", "moonlight", "sigil"})
    /\ [][ ret'.op = "add_ingredient" =>
             LET g == ret'.ingredient
                 fits == /\ g \in {"beans", "milk", "stardust", "meteor_shot",
                                   "moonlight", "sigil"}
                         /\ Len(current_recipe) < 3
             IN  /\ ret'.value = fits
                 /\ fits => /\ current_recipe' = Append(current_recipe, g)
                            /\ current_brew_time' = 0
                 /\ ~fits => /\ current_recipe' = current_recipe
                             /\ current_brew_time' = current_brew_time
                 /\ UNCHANGED <<is_brewing, selected_customer_index>>
         ]_vars

\* C17 witness: an allowed ingredient was refused on a full sequence whose
\* brew time had advanced.
C17_Witness ==
    /\ ret.op = "add_ingredient"
    /\ ret.ingredient = "beans"
    /\ ~ret.value
    /\ Len(current_recipe) = 3
    /\ current_brew_time > 0

\* C24: start_order(i) leaves the station bound to slot i with an empty
\* sequence, elapsed time 0 and brewing = true, whatever order was in
\* progress; the sequence grows only by an accepted add_ingredient;
\* complete_order returns the sequence accumulated and, like cancel_order,
\* leaves the station unbound, not brewing and with an empty sequence; so
\* brewing is true if and only if a slot is bound.
C24_OneOrderInProgress ==
    /\ [](is_brewing <=> selected_customer_index # NoIndex)
    /\ [][ /\ ret'.op = "start_order" =>
                /\ selected_customer_index' = ret'.index
                /\ current_recipe' = <<>>
                /\ current_brew_time' = 0
                /\ is_brewing'
           /\ ret'.op = "complete_order" => ret'.value = current_recipe
           /\ ret'.op \in {"complete_order", "cancel_order"} =>
                /\ selected_customer_index' = NoIndex
                /\ current_recipe' = <<>>
                /\ ~is_brewing'
           /\ current_recipe' # current_recipe =>
                \/ current_recipe' = <<>>
                \/ /\ ret'.op = "add_ingredient"
                   /\ current_recipe' = Append(current_recipe, ret'.ingredient)
         ]_vars

\* C24 witness: complete_order returned a sequence of two ingredients or
\* more and left the station unbound.
C24_Witness ==
    /\ ret.op = "complete_order"
    /\ Len(ret.value) >= 2
    /\ selected_customer_index = NoIndex
    /\ ~is_brewing

(***************************************************************************)
(* Properties of the player's actions at the counter.                      *)
(***************************************************************************)
\* the last call served the selected customer exactly its three-step
\* desired recipe while it still had patience
ServedExactThreeSteps ==
    /\ ret.op = "host_serve_drink"
    /\ ret.bound
    /\ Len(ret.steps) = 3
    /\ ret.steps = Recipes[ret.customer.desired_recipe]
    /\ ret.customer.patience > 0

\* C15 as stated: selecting a customer, adding its exact three-step desired
\* recipe one ingredient at a time and serving it returns success = true and
\* a strictly positive tip whenever the customer's patience is > 0.
C15_PositiveTip ==
    ServedExactThreeSteps => ret.value.success /\ ret.value.tip > 0

\* C15 amended: that serve returns success = true and a tip of at least
\* tip_range[0], which is strictly positive whenever tip_range[0] > 0.
C15_TipAtLeastBase ==
    ServedExactThreeSteps =>
        /\ ret.value.success
        /\ ret.value.tip >= ret.customer.tip_range[1]
        /\ ret.customer.tip_range[1] > 0 => ret.value.tip > 0

\* C15 witness: the exact recipe served to a customer that has waited, for
\* a tip above zero.
C15_Witness ==
    /\ ServedExactThreeSteps
    /\ ret.customer.patience < ret.customer.max_patience
    /\ ret.value.success
    /\ ret.value.tip > 0

(***************************************************************************)
(* Properties of a session.                                                *)
(***************************************************************************)
\* C13: the modifiers handed to ServiceController.update on every tick of a
\* service day are the current modifiers of the manager the shop's purchases
\* went into: after a purchase between days, every tick of every later day
\* runs with the purchased multiplier instead of 1.0.
C13_TicksUseShopModifiers ==
    [][ (current_state = "service" /\ ret'.op = "update")
        => modifiers = shop_modifiers ]_vars

(***************************************************************************)
(* Properties of the spawn schedule.                                       *)
(***************************************************************************)
\* C21: in a day driven by start_day, update and serve_drink only,
\* customers_served + occupied slots never exceeds 8; an active update puts a
\* new customer into a free slot only when the spawn timer has expired and
\* that sum is below 8, sets spawn_timer to spawn_interval +/- 2 s exactly
\* when it did, and otherwise leaves the timer at its decremented value, so
\* that an expired timer stays expired.
C21_SpawnCap ==
    /\ [](customers_served + NumOccupied <= 8)
    /\ [][ (ret'.op = "update" /\ active) =>
             LET dt == hist'.elapsed - hist.elapsed
                 added == \E i \in Slots : /\ customers[i] = NoCustomer
                                           /\ customers'[i] # NoCustomer
             IN  /\ added => /\ spawn_timer - dt <= 0
                             /\ customers_served + NumOccupied < 8
                             /\ spawn_timer' >= spawn_interval - Sec(2)
                             /\ spawn_timer' <= spawn_interval + Sec(2)
                 /\ ~added => spawn_timer' = spawn_timer - dt
       ]_vars

\* C21 witness: the last update found the timer expired and a slot free, and
\* spawned nobody because served plus waiting customers stand at 8.
C21_Witness ==
    /\ ret.op = "update"
    /\ active
    /\ customers_served + NumOccupied + Len(ret.value.customers_left) = 8
    /\ NumOccupied + Len(ret.value.customers_left) < max_size
    /\ spawn_timer <= 0

(***************************************************************************)
(* Properties of CustomerQueue.update.                                     *)
(***************************************************************************)
\* patience of the customer in slot i once aged by dt
AgedBy(i, dt) ==
    customers[i].patience - (dt * modifiers.patience_decay) \div 100

\* the occupied slots whose customer has no patience left once aged by dt
Evicted(dt) == {i \in Slots : customers[i] # NoCustomer /\ AgedBy(i, dt) <= 0}

\* C22: CustomerQueue.update ages every occupied slot by dt * patience_decay
\* and evicts exactly the customers whose patience is then <= 0: every
\* customer still in a slot has patience > 0 and stays in its slot, empty
\* slots stay empty, and the returned list holds each evicted customer once,
\* in increasing slot order.
C22_QueueUpdate ==
    [][ ret'.op = "queue_update" =>
          LET dt == ret'.dt
              left == ret'.value
          IN  /\ \A i \in Slots :
                    IF customers[i] = NoCustomer \/ i \in Evicted(dt)
                    THEN customers'[i] = NoCustomer
                    ELSE /\ customers'[i] # NoCustomer
                         /\ customers'[i].name = customers[i].name
                         /\ customers'[i].max_patience = customers[i].max_patience
                         /\ customers'[i].patience = AgedBy(i, dt)
                         /\ customers'[i].patience > 0
              /\ Len(left) = Cardinality(Evicted(dt))
              /\ \A i \in Evicted(dt) :
                    LET k == Cardinality({j \in Evicted(dt) : j < i}) + 1
                    IN  /\ left[k].name = customers[i].name
                        /\ left[k].max_patience = customers[i].max_patience
                        /\ left[k].patience = AgedBy(i, dt)
      ]_vars

\* C22 witness: an update evicted two customers of different templates, one
\* of them at patience exactly 0, past a gap, and left a customer waiting.
C22_Witness ==
    /\ ret.op = "queue_update"
    /\ Len(ret.value) = 2
    /\ ret.value[1].name # ret.value[2].name
    /\ \E k \in 1..2 : ret.value[k].patience = 0
    /\ customers[0] = NoCustomer
    /\ NumOccupied > 0

(***************************************************************************)
(* Properties of the orders customers are given.                           *)
(***************************************************************************)
\* C23: no customer in the queue, and none that an update reports as having
\* left, desires a recipe whose id is tagged banishing: spawn_customer
\* assigns only what get_random_recipe returns.
C23_NoBanishingOrder ==
    /\ \A i \in Slots :
          customers[i] # NoCustomer =>
             customers[i].desired_recipe \notin {"banishing_espresso"}
    /\ ret.op = "update" =>
          \A k \in 1..Len(ret.value.customers_left) :
             ret.value.customers_left[k].desired_recipe
                \notin {"banishing_espresso"}

\* C23 witness: customers with different orders wait, spawned by start_day,
\* by update and by a direct spawn_customer call, while the recipe book
\* holds a banishing recipe.
C23_Witness ==
    /\ \E id \in RecipeIds : id = "banishing_espresso"
    /\ hist.calls > 0
    /\ hist.elapsed > 0
    /\ \E i, j \in Slots :
          /\ customers[i] # NoCustomer /\ customers[j] # NoCustomer
          /\ customers[i].desired_recipe # customers[j].desired_recipe

(***************************************************************************)
(* Properties of pausing.                                                  *)
(***************************************************************************)
\* C25: pausing during a service day and resuming returns to the same day in
\* progress: neither the step into the pause screen nor the step from it
\* back to the service screen changes time_remaining, customers_served,
\* total_tips, the queue or the chaos manager's triggered flag and event
\* (nothing runs while the pause screen is current).
C25_ResumeKeepsDay ==
    [][ ( \/ current_state = "service" /\ current_state' = "pause"
          \/ current_state = "pause" /\ current_state' = "service"
          \/ current_state = "pause" /\ current_state' = "pause" )
        => UNCHANGED <<time_remaining, customers_served, total_tips, customers,
                       event_triggered, current_event>> ]_vars

(***************************************************************************)
(* C26: the customer served is the customer the station was bound to       *)
(***************************************************************************)
\* C26: between start_order and serve_drink no update tick or start_day
\* leaves the station bound to a slot whose occupant is no longer the
\* customer that held the slot when start_order bound it, and serve_drink
\* removes and pays that customer (hist.bound_left: that customer has left)
C26_ServesBoundCustomer ==
    /\ [](BoundOccupied => ~hist.bound_left)
    /\ [][ (ret'.op = "serve_drink" /\ ret'.bound) => ~hist.bound_left ]_vars

(***************************************************************************)
(* C27: the portal resolved through ServiceState.serve_drink               *)
(***************************************************************************)
\* the step is a ServiceState.serve_drink that resolved the portal
PortalResolvedByServe ==
    /\ ret'.op = "host_serve_drink"
    /\ current_event # NoEvent /\ ~current_event.resolved
    /\ current_event' # NoEvent /\ current_event'.resolved

\* C27: a ServiceState.serve_drink that resolves the portal has first served
\* the selected customer with the banishing sequence: that customer is
\* removed with success = false and tip 0, customers_served grows by 1, and
\* neither total_tips nor the coins change
C27_BanishServesCustomer ==
    [][ PortalResolvedByServe =>
          /\ ret'.bound
          /\ ret'.steps = BanishingSteps
          /\ ~ret'.value.success /\ ret'.value.tip = 0
          /\ customers' = RemoveCustomer(customers, selected_customer_index)
          /\ customers_served' = customers_served + 1
          /\ total_tips' = total_tips
          /\ game_data' = game_data ]_vars

(***************************************************************************)
(* C28: the coin balance                                                   *)
(***************************************************************************)
\* C28: game_data coins is never negative, and a purchase_upgrade step
\* either leaves it alone or lowers it by exactly the cost of the upgrade
\* asked for, the latter only when the balance was at least that cost
C28_CoinsNeverNegative ==
    /\ [](game_data.coins >= 0)
    /\ [][ ret'.op = "purchase_upgrade" =>
             LET cost == available_upgrades[ret'.upgrade_id].cost
             IN  \/ game_data'.coins = game_data.coins
                 \/ /\ game_data.coins >= cost
                    /\ game_data'.coins = game_data.coins - cost ]_vars

\* an upgrade has been bought with earnings of the day, and one has been
\* refused since
C28_Witness ==
    /\ ret.op = "purchase_upgrade"
    /\ ret.value = Nothing
    /\ shop_purchased_upgrades # <<>>
    /\ game_data.coins < NewGameData.coins

(***************************************************************************)
(* C29: the time bonus of the day results                                  *)
(***************************************************************************)
\* C29: the time bonus of the results is always 0 and the total earnings
\* equal the tips earned; the results are written only by the update tick
\* that returns day_ended, after time_remaining has been floored to 0
C29_TimeBonusZero ==
    /\ [](results.time_bonus = 0 /\ results.total_earnings = results.tips_earned)
    /\ [][ results' # results =>
             /\ ret'.op = "update"
             /\ ret'.value.day_ended
             /\ time_remaining' = 0
             /\ results'.tips_earned = total_tips ]_vars

\* the results of a day with tips, whose last tick overshot the clock
C29_Witness ==
    /\ current_state = "day_results"
    /\ results.tips_earned > 0
    /\ results.total_earnings = results.tips_earned
    /\ hist.elapsed > day_time

====
